---- MODULE Spec2Model ----
(***************************************************************************)
(* Project review and approval workflow (appdotbuilder/project-risk-        *)
(* approval): the handlers submitProject, submitReview, approveProject and  *)
(* rejectProject acting on the projects, reviews, project_reviewers,        *)
(* notifications and project_history tables.                                *)
(*                                                                          *)
(* Each handler call is one action (serial execution of whole calls).  A    *)
(* thrown Error is recorded in `last` as the sequence of the parts of its   *)
(* message; a failed call leaves the tables as the code leaves them.        *)
(* The tables start with rows inserted directly into the database, as the   *)
(* test suites do: a project may start in any status of the enum, and a     *)
(* review starts pending or already submitted.                              *)
(*                                                                          *)
(* Spec: Init ranges over every such content of the projects and reviews    *)
(* tables within the bounds and a run makes one handler call, so that the   *)
(* call is made from every state these tables can be in (no handler reads   *)
(* the notifications or the history).                                       *)
(* SpecRound: runs of MaxRoundCalls calls from the start of a review round. *)
(* SpecStatements: as Spec, the call run statement by statement, each       *)
(* statement possibly rejected by the database.                             *)
(* SpecRace: as SpecRound, the calls running concurrently, their            *)
(* statements interleaved.                                                  *)
(* SpecLife: runs of MaxLifeCalls calls from the empty tables, the projects *)
(* made by createProject.                                                   *)
(* SpecAudit: as SpecRound, the projects in draft or under_review.          *)
(* SpecPair: one call from two projects with one review each.               *)
(* SpecInbox: one call, of the handlers above or of markNotificationAsRead, *)
(* markAllNotificationsAsRead or createComment, from one project and an     *)
(* inbox with notifications.                                                *)
(***************************************************************************)
EXTENDS Integers, Sequences, FiniteSets, TLC

\* ------------------------------------------------------------------ bounds
MaxRows       == 3 \* rows of the projects and reviews tables together
MaxRoundCalls == 2 \* handler calls made in a run of SpecRound
MaxLifeCalls  == 4 \* handler calls made in a run of SpecLife

\* ------------------------------------------------------------------- enums
NULL == "null"     \* a null enum column

\* a timestamp column: <<>> is null, <<t>> the time t
NullDate == <<>>
Date(t)  == <<t>>

UserRole == {"project_proposer", "reviewer", "director", "system_administrator"}

ProjectStatus ==
  {"draft", "submitted", "under_review", "approved", "rejected", "returned"}

ReviewDecision == {"approve", "reject", "return"}

NotificationType ==
  {"project_submitted", "review_assigned", "review_completed",
   "project_approved", "project_rejected", "project_returned", "comment_added"}

\* ------------------------------------------------------------------- users
\* The users table; no workflow handler writes it.
users ==
  <<[role |-> "project_proposer",     is_active |-> TRUE],
    [role |-> "reviewer",             is_active |-> TRUE],
    [role |-> "reviewer",             is_active |-> TRUE],
    [role |-> "director",             is_active |-> TRUE],
    [role |-> "system_administrator", is_active |-> TRUE],
    [role |-> "director",             is_active |-> FALSE]>>

UserIds == DOMAIN users

\* ids a caller may pass: every row and one id that matches no row
UserIdInputs    == UserIds \cup {Len(users) + 1}
ReasonInputs    == {"Budget concerns", "Out of scope"}

\* ------------------------------------------------------------------- state
VARIABLES
  projects,          \* projects table: id -> [status, proposer_id]
  reviews,           \* reviews table: id -> [project_id, reviewer_id, decision, submitted_at]
  projectReviewers,  \* project_reviewers table: id -> [project_id, reviewer_id]
  notifications,     \* notifications table, in insertion order
  history,           \* project_history table, in insertion order
  clock,             \* the value the next `new Date()` returns
  callsLeft,         \* handler calls still to be made in this run
  calls,             \* the calls run statement by statement, in flight or finished
  last,              \* the last handler call and its outcome
  comments           \* comments table: id -> [project_id, user_id, parent_comment_id]

vars == <<projects, reviews, projectReviewers, notifications, history, clock, callsLeft,
          calls, last, comments>>

tables == <<projects, reviews, projectReviewers, notifications, history>>

ProjectIdInputs == 1 .. (Len(projects) + 1)
ReviewIdInputs  == 1 .. (Len(reviews) + 1)

\* --------------------------------------------------------- helper operators
RECURSIVE SortedSeq(_)
\* the rows a select returns, in id order
SortedSeq(S) ==
  IF S = {} THEN <<>>
  ELSE LET m == CHOOSE x \in S : \A y \in S : x <= y
       IN  <<m>> \o SortedSeq(S \ {m})

\* mutant: the row is inserted as read
Notification_Read(userId, type, projectId, message) ==
  [user_id |-> userId, type |-> type, project_id |-> projectId, message |-> message,
   is_read |-> TRUE]

\* a notification row; the message is the template's parts, the project
\* name (which no handler reads back) left out
Notification(userId, type, projectId, message) ==
  [user_id |-> userId, type |-> type, project_id |-> projectId, message |-> message,
   is_read |-> FALSE]

HistoryEntry(projectId, userId, action, details) ==
  [project_id |-> projectId, user_id |-> userId, action |-> action, details |-> details]

Ok(op, args)          == [op |-> op, args |-> args, ok |-> TRUE,  error |-> <<>>]
Thrown(op, args, msg) == [op |-> op, args |-> args, ok |-> FALSE, error |-> msg]

\* mutant: the where clause is missing
ReviewsOf_AllProjects(rs, p) == DOMAIN rs

\* select ... from reviews where project_id = p
ReviewsOf(rs, p) == {i \in DOMAIN rs : rs[i].project_id = p}

\* mutant: the select stops at the first row
ReviewerIdsOf_Limit1(p) ==
  LET rows == SortedSeq({i \in DOMAIN projectReviewers : projectReviewers[i].project_id = p})
  IN  [k \in DOMAIN rows \cap {1} |-> projectReviewers[rows[k]].reviewer_id]

\* select reviewer_id from project_reviewers where project_id = p
ReviewerIdsOf(p) ==
  LET rows == SortedSeq({i \in DOMAIN projectReviewers : projectReviewers[i].project_id = p})
  IN  [k \in DOMAIN rows |-> projectReviewers[rows[k]].reviewer_id]

\* mutant: the is_active condition is missing
ActiveWithRole_IgnoreActive(r) ==
  SortedSeq({u \in UserIds : users[u].role = r})

\* select ... from users where role = r and is_active = true
ActiveWithRole(r) ==
  SortedSeq({u \in UserIds : users[u].role = r /\ users[u].is_active})

\* ------------------------------------------------------------------- Init
\* a review row is pending (decision and submitted_at null) or was submitted
\* in the past with one of the three decisions
TypeOK ==
  /\ \A u \in UserIds : users[u].role \in UserRole
  /\ \A p \in DOMAIN projects : projects[p].status \in ProjectStatus
  /\ \A k \in DOMAIN notifications : notifications[k].type \in NotificationType
  /\ \A i \in DOMAIN reviews :
       /\ reviews[i].decision \in ReviewDecision \cup {NULL}
       /\ reviews[i].submitted_at \in {NullDate} \cup {Date(t) : t \in 0 .. clock}

\* the sizes the two tables can have: <<projects, reviews>>, a review
\* needing a project
TableSizes ==
  {sz \in (0 .. MaxRows) \X (0 .. MaxRows) :
     sz[1] + sz[2] <= MaxRows /\ (sz[1] = 0 => sz[2] = 0)}

\* the project of each review row: the rows of a project are inserted
\* together when the project is created, so review ids ascend with project ids
ReviewProjects(np, nr) ==
  {proj \in [1 .. nr -> 1 .. np] : \A i, j \in 1 .. nr : i <= j => proj[i] <= proj[j]}

\* the rows of the reviews table and of the project_reviewers table, one
\* assignment per review
ReviewRows(proj, dec) ==
  [i \in DOMAIN proj |->
     [project_id   |-> proj[i],
      reviewer_id  |-> 2 + (i % 2),
      decision     |-> dec[i],
      submitted_at |-> IF dec[i] = NULL THEN NullDate ELSE Date(0)]]

AssignmentRows(rs) ==
  [i \in DOMAIN rs |-> [project_id |-> rs[i].project_id, reviewer_id |-> rs[i].reviewer_id]]

NoCall == [op |-> "none", args |-> <<>>, ok |-> TRUE, error |-> <<>>]

Init ==
  /\ \E sz \in TableSizes :
       /\ projects \in [1 .. sz[1] -> [status : ProjectStatus, proposer_id : {1}]]
       /\ \E proj \in ReviewProjects(sz[1], sz[2]),
             dec  \in [1 .. sz[2] -> ReviewDecision \cup {NULL}] :
            reviews = ReviewRows(proj, dec)
  /\ projectReviewers = AssignmentRows(reviews)
  /\ notifications = <<>>
  /\ history = <<>>
  /\ clock = 1
  /\ callsLeft = 1
  /\ calls = <<>>
  /\ comments = <<>>
  /\ last = NoCall

\* ----------------------------------------------------------- submitProject
\* mutant: the status check is missing
SubmitChecks_NoStatusCheck(projectId, userId) ==
  IF projectId \notin DOMAIN projects THEN <<"Project not found">>
  ELSE IF projects[projectId].proposer_id # userId THEN
    <<"Only the project proposer can submit the project">>
  ELSE <<>>

\* the checks of submitProject, in the order of the code: the message of
\* the first check that throws, <<>> when every check passes
SubmitChecks(projectId, userId) ==
  IF projectId \notin DOMAIN projects THEN <<"Project not found">>
  ELSE IF projects[projectId].proposer_id # userId THEN
    <<"Only the project proposer can submit the project">>
  ELSE IF projects[projectId].status # "draft" THEN
    <<"Only draft projects can be submitted">>
  ELSE <<>>

SubmittedMessage == <<"Project has been submitted and requires your review.">>

SubmitProject(projectId, userId) ==
  LET args == <<projectId, userId>>
      thrown == SubmitChecks(projectId, userId)
  IN
  /\ callsLeft > 0
  /\ callsLeft' = callsLeft - 1
  /\ UNCHANGED <<calls, comments>>
  /\ IF thrown # <<>> THEN
       /\ last' = Thrown("submitProject", args, thrown)
       /\ UNCHANGED <<tables, clock>>
     ELSE
       LET reviewers == ReviewerIdsOf(projectId) IN
       /\ projects' = [projects EXCEPT ![projectId].status = "submitted"]
       /\ notifications' = notifications \o
            [k \in DOMAIN reviewers |->
               Notification(reviewers[k], "project_submitted", projectId,
                            SubmittedMessage)]
       /\ history' = Append(history,
            HistoryEntry(projectId, userId, <<"Project Submitted">>, <<>>))
       /\ last' = Ok("submitProject", args)
       /\ UNCHANGED <<reviews, projectReviewers, clock>>

\* ------------------------------------------------------------ submitReview
TotalReviews(rs, p)    == Cardinality(ReviewsOf(rs, p))
ApprovedReviews(rs, p) == Cardinality({i \in ReviewsOf(rs, p) : rs[i].decision = "approve"})
\* mutant: the count of rejected reviews misses the review submitted last
RejectedReviews_Stale(rs, p) ==
  Cardinality({i \in ReviewsOf(rs, p) :
                 /\ rs[i].decision = "reject"
                 /\ \E j \in ReviewsOf(rs, p) :
                      /\ rs[j].submitted_at # NullDate
                      /\ rs[j].submitted_at[1] > rs[i].submitted_at[1]})

RejectedReviews(rs, p) == Cardinality({i \in ReviewsOf(rs, p) : rs[i].decision = "reject"})
ReturnedReviews(rs, p) == Cardinality({i \in ReviewsOf(rs, p) : rs[i].decision = "return"})
PendingReviews(rs, p)  == Cardinality({i \in ReviewsOf(rs, p) : rs[i].submitted_at = NullDate})

\* mutant: the round counts as complete with one review still pending
RoundComplete_OnePending(pendingReviews) == pendingReviews <= 1

\* mutant: the aggregation block runs after every review
RoundComplete_Always(pendingReviews) == TRUE

\* if (pendingReviews === 0)
RoundComplete(pendingReviews) == pendingReviews = 0

\* mutant: the return branch tested before the reject branch
NewStatus_ReturnFirst(totalReviews, approvedReviews, rejectedReviews, returnedReviews) ==
  IF returnedReviews > 0 THEN "returned"
  ELSE IF rejectedReviews > 0 THEN "rejected"
  ELSE "approved"

\* mutant: rejectedReviews >= 0 in place of rejectedReviews > 0
NewStatus_RejectGe(totalReviews, approvedReviews, rejectedReviews, returnedReviews) ==
  IF rejectedReviews >= 0 THEN "rejected"
  ELSE IF returnedReviews > 0 THEN "returned"
  ELSE "approved"

\* mutant: the return branch is missing
NewStatus_NoReturnBranch(totalReviews, approvedReviews, rejectedReviews, returnedReviews) ==
  IF rejectedReviews > 0 THEN "rejected"
  ELSE "approved"

\* let newStatus = 'approved'; if / else if / else if
NewStatus(totalReviews, approvedReviews, rejectedReviews, returnedReviews) ==
  IF rejectedReviews > 0 THEN "rejected"
  ELSE IF returnedReviews > 0 THEN "returned"
  ELSE IF approvedReviews = totalReviews THEN "approved"
  ELSE "approved"

FinalNotificationType(newStatus) ==
  IF newStatus = "approved" THEN "project_approved"
  ELSE IF newStatus = "rejected" THEN "project_rejected"
  ELSE "project_returned"

ReviewCompletedMessage(decision) ==
  <<"has completed their review of your project with decision: ", decision>>

\* let notificationMessage = ''; set in the branch that sets newStatus
FinalNotificationMessage(totalReviews, approvedReviews, rejectedReviews, returnedReviews) ==
  IF rejectedReviews > 0 THEN <<"Your project has been rejected by reviewers">>
  ELSE IF returnedReviews > 0 THEN
    <<"Your project has been returned by reviewers for revisions">>
  ELSE IF approvedReviews = totalReviews THEN
    <<"Your project has been approved by all reviewers">>
  ELSE <<>>

AdminApprovedMessage ==
  <<"Project has been approved by all reviewers and is ready for implementation">>

SubmitReview(id, decision) ==
  LET args == <<id, decision>> IN
  /\ callsLeft > 0
  /\ callsLeft' = callsLeft - 1
  /\ UNCHANGED <<calls, comments>>
  /\ IF id \notin DOMAIN reviews THEN
       /\ last' = Thrown("submitReview", args, <<"Review with id ", id, " not found">>)
       /\ UNCHANGED <<tables, clock>>
     ELSE
       LET existingReview == reviews[id]
           pid      == existingReview.project_id
           updated  == [reviews EXCEPT ![id].decision = decision,
                                       ![id].submitted_at = Date(clock)]
       IN
       /\ reviews' = updated
       /\ clock' = clock + 1
       /\ UNCHANGED projectReviewers
       /\ IF pid \notin DOMAIN projects THEN
            /\ last' = Thrown("submitReview", args,
                              <<"Project with id ", pid, " not found">>)
            /\ UNCHANGED <<projects, notifications, history>>
          ELSE
            LET project == projects[pid]
                notes1  == Append(notifications,
                             Notification(project.proposer_id, "review_completed", pid,
                                          ReviewCompletedMessage(decision)))
                hist1   == Append(history,
                             HistoryEntry(pid, existingReview.reviewer_id,
                               <<"Review submitted with decision: ", decision>>, <<>>))
                newStatus == NewStatus(TotalReviews(updated, pid),
                                       ApprovedReviews(updated, pid),
                                       RejectedReviews(updated, pid),
                                       ReturnedReviews(updated, pid))
                allAdmins == ActiveWithRole("director") \o
                             ActiveWithRole("system_administrator")
            IN
            /\ last' = Ok("submitReview", args)
            /\ IF RoundComplete(PendingReviews(updated, pid)) THEN
                 /\ projects' = [projects EXCEPT ![pid].status = newStatus]
                 /\ notifications' =
                      Append(notes1,
                        Notification(project.proposer_id,
                                     FinalNotificationType(newStatus), pid,
                                     FinalNotificationMessage(
                                       TotalReviews(updated, pid),
                                       ApprovedReviews(updated, pid),
                                       RejectedReviews(updated, pid),
                                       ReturnedReviews(updated, pid))))
                      \o (IF newStatus = "approved"
                          THEN [k \in DOMAIN allAdmins |->
                                  Notification(allAdmins[k], "project_approved", pid,
                                               AdminApprovedMessage)]
                          ELSE <<>>)
                 /\ history' = Append(hist1,
                      HistoryEntry(pid, existingReview.reviewer_id,
                        <<"Project status changed to ", newStatus>>, <<>>))
               ELSE
                 /\ projects' = projects
                 /\ notifications' = notes1
                 /\ history' = hist1

\* ------------------------------------------- approveProject / rejectProject
\* mutant: reviewers pass the role check too
HasDecisionRole_OrReviewer(role) == role \in {"reviewer", "director", "system_administrator"}

\* ['director', 'system_administrator'].includes(user[0].role)
HasDecisionRole(role) == role \in {"director", "system_administrator"}

\* mutant: submitted projects pass the status check too
StatusAllowsDecision_OrSubmitted(status) == status \in {"submitted", "under_review"}

\* currentProject.status !== 'under_review' throws
StatusAllowsDecision(status) == status = "under_review"

\* mutant: the check for return decisions is missing
ApproveReviewChecks_NoReturnCheck(projectId) ==
  LET rs == ReviewsOf(reviews, projectId) IN
  IF rs = {} THEN <<"No reviews found for this project">>
  ELSE IF \E i \in rs : reviews[i].submitted_at = NullDate THEN
    <<"Cannot approve project: some reviews are not yet submitted">>
  ELSE IF \E i \in rs : reviews[i].decision = "reject" THEN
    <<"Cannot approve project: some reviews have rejected the project">>
  ELSE <<>>

\* mutant: the check for unsubmitted reviews is missing
ApproveReviewChecks_NoUnsubmittedCheck(projectId) ==
  LET rs == ReviewsOf(reviews, projectId) IN
  IF rs = {} THEN <<"No reviews found for this project">>
  ELSE IF \E i \in rs : reviews[i].decision = "reject" THEN
    <<"Cannot approve project: some reviews have rejected the project">>
  ELSE IF \E i \in rs : reviews[i].decision = "return" THEN
    <<"Cannot approve project: some reviews have returned the project">>
  ELSE <<>>

\* the review checks of approveProject, in the order of the code: the
\* message of the first check that throws, <<>> when every check passes
ApproveReviewChecks(projectId) ==
  LET rs == ReviewsOf(reviews, projectId)
      unsubmittedReviews == {i \in rs : reviews[i].submitted_at = NullDate}
      rejectedReviews    == {i \in rs : reviews[i].decision = "reject"}
      returnedReviews    == {i \in rs : reviews[i].decision = "return"}
  IN  IF rs = {} THEN <<"No reviews found for this project">>
      ELSE IF unsubmittedReviews # {} THEN
        <<"Cannot approve project: some reviews are not yet submitted">>
      ELSE IF rejectedReviews # {} THEN
        <<"Cannot approve project: some reviews have rejected the project">>
      ELSE IF returnedReviews # {} THEN
        <<"Cannot approve project: some reviews have returned the project">>
      ELSE <<>>

\* mutant: an inactive user is refused
ApproveUserProjectChecks_ActiveOnly(projectId, userId) ==
  IF userId \notin UserIds THEN <<"User not found">>
  ELSE IF ~HasDecisionRole(users[userId].role) \/ ~users[userId].is_active THEN
    <<"Insufficient permissions: only directors and system administrators can approve projects">>
  ELSE IF projectId \notin DOMAIN projects THEN <<"Project not found">>
  ELSE IF ~StatusAllowsDecision(projects[projectId].status) THEN
    <<"Project cannot be approved from status: ", projects[projectId].status>>
  ELSE <<>>

\* mutant: the project is looked up before the user
ApproveUserProjectChecks_ProjectFirst(projectId, userId) ==
  IF projectId \notin DOMAIN projects THEN <<"Project not found">>
  ELSE IF ~StatusAllowsDecision(projects[projectId].status) THEN
    <<"Project cannot be approved from status: ", projects[projectId].status>>
  ELSE IF userId \notin UserIds THEN <<"User not found">>
  ELSE IF ~HasDecisionRole(users[userId].role) THEN
    <<"Insufficient permissions: only directors and system administrators can approve projects">>
  ELSE <<>>

\* the checks of approveProject on the user and the project
ApproveUserProjectChecks(projectId, userId) ==
  IF userId \notin UserIds THEN <<"User not found">>
  ELSE IF ~HasDecisionRole(users[userId].role) THEN
    <<"Insufficient permissions: only directors and system administrators can approve projects">>
  ELSE IF projectId \notin DOMAIN projects THEN <<"Project not found">>
  ELSE IF ~StatusAllowsDecision(projects[projectId].status) THEN
    <<"Project cannot be approved from status: ", projects[projectId].status>>
  ELSE <<>>

\* the checks of approveProject, in the order of the code: the message of
\* the first check that throws, <<>> when every check passes
ApproveChecks(projectId, userId) ==
  IF ApproveUserProjectChecks(projectId, userId) # <<>>
  THEN ApproveUserProjectChecks(projectId, userId)
  ELSE ApproveReviewChecks(projectId)

\* mutant: rejectProject runs the checks of approveProject
RejectChecks_WithReviewChecks(projectId, userId) == ApproveChecks(projectId, userId)

\* the checks of rejectProject: user, role, project, status and nothing else
RejectChecks(projectId, userId) ==
  IF userId \notin UserIds THEN <<"User not found">>
  ELSE IF ~HasDecisionRole(users[userId].role) THEN
    <<"Insufficient permissions: only directors and system administrators can reject projects">>
  ELSE IF projectId \notin DOMAIN projects THEN <<"Project not found">>
  ELSE IF ~StatusAllowsDecision(projects[projectId].status) THEN
    <<"Project cannot be rejected from status: ", projects[projectId].status>>
  ELSE <<>>

\* the messages of the two handlers' notifications
ProposerApprovedMessage == <<"Your project has been approved.">>
ReviewerApprovedMessage == <<"The project you reviewed has been approved.">>
ProposerRejectedMessage(reason) == <<"Your project has been rejected. Reason: ", reason>>

\* mutant: the reviewers' message leaves the reason out
ReviewerRejectedMessage_NoReason(reason) ==
  <<"The project you reviewed has been rejected.">>

ReviewerRejectedMessage(reason) ==
  <<"The project you reviewed has been rejected. Reason: ", reason>>

\* the writes of approveProject and rejectProject once the checks passed:
\* the status, one notification for the proposer and one per assigned
\* reviewer, one history entry
\* mutant: the history entry is missing
Decide_NoHistory(projectId, userId, status, type, proposerMessage, reviewerMessage, action, details) ==
  LET reviewerIds == ReviewerIdsOf(projectId) IN
  /\ projects' = [projects EXCEPT ![projectId].status = status]
  /\ notifications' =
       Append(notifications,
              Notification(projects[projectId].proposer_id, type, projectId, proposerMessage))
       \o [k \in DOMAIN reviewerIds |->
             Notification(reviewerIds[k], type, projectId, reviewerMessage)]
  /\ UNCHANGED <<history, reviews, projectReviewers, clock>>

\* mutant: the loop over the assigned reviewers is missing
Decide_ProposerOnly(projectId, userId, status, type, proposerMessage, reviewerMessage, action, details) ==
  /\ projects' = [projects EXCEPT ![projectId].status = status]
  /\ notifications' =
       Append(notifications,
              Notification(projects[projectId].proposer_id, type, projectId, proposerMessage))
  /\ history' = Append(history, HistoryEntry(projectId, userId, action, details))
  /\ UNCHANGED <<reviews, projectReviewers, clock>>

Decide(projectId, userId, status, type, proposerMessage, reviewerMessage, action, details) ==
  LET reviewerIds == ReviewerIdsOf(projectId) IN
  /\ projects' = [projects EXCEPT ![projectId].status = status]
  /\ notifications' =
       Append(notifications,
              Notification(projects[projectId].proposer_id, type, projectId, proposerMessage))
       \o [k \in DOMAIN reviewerIds |->
             Notification(reviewerIds[k], type, projectId, reviewerMessage)]
  /\ history' = Append(history, HistoryEntry(projectId, userId, action, details))
  /\ UNCHANGED <<reviews, projectReviewers, clock>>

ApproveProject(projectId, userId) ==
  LET args == <<projectId, userId>>
      thrown == ApproveChecks(projectId, userId)
  IN
  /\ callsLeft > 0
  /\ callsLeft' = callsLeft - 1
  /\ UNCHANGED <<calls, comments>>
  /\ IF thrown # <<>> THEN
       /\ last' = Thrown("approveProject", args, thrown)
       /\ UNCHANGED <<tables, clock>>
     ELSE
       /\ last' = Ok("approveProject", args)
       /\ Decide(projectId, userId, "approved", "project_approved",
                 ProposerApprovedMessage, ReviewerApprovedMessage,
                 <<"Project Approved">>,
                 <<"Project approved by ", users[userId].role>>)

RejectProject(projectId, userId, reason) ==
  LET args == <<projectId, userId, reason>>
      thrown == RejectChecks(projectId, userId)
  IN
  /\ callsLeft > 0
  /\ callsLeft' = callsLeft - 1
  /\ UNCHANGED <<calls, comments>>
  /\ IF thrown # <<>> THEN
       /\ last' = Thrown("rejectProject", args, thrown)
       /\ UNCHANGED <<tables, clock>>
     ELSE
       /\ last' = Ok("rejectProject", args)
       /\ Decide(projectId, userId, "rejected", "project_rejected",
                 ProposerRejectedMessage(reason), ReviewerRejectedMessage(reason),
                 <<"Project Rejected">>,
                 <<"Project rejected by ", users[userId].role, ". Reason: ", reason>>)

\* ---------------------------------------------------------- specification
Next ==
  \/ \E projectId \in ProjectIdInputs, userId \in UserIdInputs :
       SubmitProject(projectId, userId)
  \/ \E id \in ReviewIdInputs, decision \in ReviewDecision :
       SubmitReview(id, decision)
  \/ \E projectId \in ProjectIdInputs, userId \in UserIdInputs :
       ApproveProject(projectId, userId)
  \/ \E projectId \in ProjectIdInputs, userId \in UserIdInputs, reason \in ReasonInputs :
       RejectProject(projectId, userId, reason)

Spec == Init /\ [][Next]_vars

\* A review round from its start: every project is under_review and every
\* review is pending, the state the tests of submitReview start from.
InitRound ==
  /\ \E sz \in TableSizes :
       /\ projects = [p \in 1 .. sz[1] |-> [status |-> "under_review", proposer_id |-> 1]]
       /\ \E proj \in ReviewProjects(sz[1], sz[2]) :
            reviews = ReviewRows(proj, [i \in 1 .. sz[2] |-> NULL])
  /\ projectReviewers = AssignmentRows(reviews)
  /\ notifications = <<>>
  /\ history = <<>>
  /\ clock = 1
  /\ callsLeft = MaxRoundCalls
  /\ calls = <<>>
  /\ comments = <<>>
  /\ last = NoCall

SpecRound == InitRound /\ [][Next]_vars

\* Projects before and in their review round: every project is in draft (as
\* createProject leaves it) or under_review and every review is pending.
InitAudit ==
  /\ \E sz \in TableSizes :
       /\ projects \in [1 .. sz[1] -> [status : {"draft", "under_review"}, proposer_id : {1}]]
       /\ \E proj \in ReviewProjects(sz[1], sz[2]) :
            reviews = ReviewRows(proj, [i \in 1 .. sz[2] |-> NULL])
  /\ projectReviewers = AssignmentRows(reviews)
  /\ notifications = <<>>
  /\ history = <<>>
  /\ clock = 1
  /\ callsLeft = MaxRoundCalls
  /\ calls = <<>>
  /\ comments = <<>>
  /\ last = NoCall

SpecAudit == InitAudit /\ [][Next]_vars

\* Two projects side by side, each with one review: any status, any
\* decision, one call.
InitPair ==
  /\ projects \in [1 .. 2 -> [status : ProjectStatus, proposer_id : {1}]]
  /\ \E dec \in [1 .. 2 -> ReviewDecision \cup {NULL}] :
       reviews = ReviewRows([i \in 1 .. 2 |-> i], dec)
  /\ projectReviewers = AssignmentRows(reviews)
  /\ notifications = <<>>
  /\ history = <<>>
  /\ clock = 1
  /\ callsLeft = 1
  /\ calls = <<>>
  /\ comments = <<>>
  /\ last = NoCall

SpecPair == InitPair /\ [][Next]_vars

\* ------------------------------------------------ the life of a project
\* the input of createProject: proposer_id and reviewer_ids (the router
\* asks for one reviewer at least, the handler takes an empty array too).
\* The ids are any numbers: the id of the proposer, of reviewers, of a
\* director, and one that matches no user.
ProposerIdInputs   == {1, Len(users) + 1}
ReviewerIdsInputs  == {<<>>, <<2>>, <<2, 3>>, <<4>>, <<Len(users) + 1>>}

\* the error of an insert whose user id matches no row of users
ForeignKeyViolation == <<"violates foreign key constraint">>

\* mutant: the review records are created with submitted_at set
ReviewRecords_Stamped(id, reviewer_ids) ==
  [k \in DOMAIN reviewer_ids |->
     [project_id |-> id, reviewer_id |-> reviewer_ids[k],
      decision |-> NULL, submitted_at |-> Date(0)]]

\* mutant: the insert of the review records is missing
ReviewRecords_None(id, reviewer_ids) == <<>>

\* reviewer_ids.map(reviewer_id => ({ project_id: project.id, reviewer_id })):
\* the other columns of a review default to null
ReviewRecords(id, reviewer_ids) ==
  [k \in DOMAIN reviewer_ids |->
     [project_id |-> id, reviewer_id |-> reviewer_ids[k],
      decision |-> NULL, submitted_at |-> NullDate]]

\* createProject: the project in draft, its reviewer assignments, the
\* history entry, one pending review per reviewer.  The handler checks
\* nothing itself; an id that matches no user makes the insert that carries
\* it fail, and the rows inserted before it stay.
CreateProject(proposer_id, reviewer_ids) ==
  LET id   == Len(projects) + 1
      args == <<proposer_id, reviewer_ids>>
  IN
  /\ callsLeft > 0
  /\ Len(projects) + Len(reviews) + 1 + Len(reviewer_ids) <= MaxRows
  /\ callsLeft' = callsLeft - 1
  /\ UNCHANGED <<notifications, clock, calls, comments>>
  /\ IF proposer_id \notin UserIds THEN
       /\ last' = Thrown("createProject", args, ForeignKeyViolation)
       /\ UNCHANGED <<projects, projectReviewers, history, reviews>>
     ELSE IF \E k \in DOMAIN reviewer_ids : reviewer_ids[k] \notin UserIds THEN
       /\ projects' = Append(projects, [status |-> "draft", proposer_id |-> proposer_id])
       /\ last' = Thrown("createProject", args, ForeignKeyViolation)
       /\ UNCHANGED <<projectReviewers, history, reviews>>
     ELSE
       /\ projects' = Append(projects, [status |-> "draft", proposer_id |-> proposer_id])
       /\ projectReviewers' = projectReviewers \o
            [k \in DOMAIN reviewer_ids |->
               [project_id |-> id, reviewer_id |-> reviewer_ids[k]]]
       /\ history' = Append(history,
            HistoryEntry(id, proposer_id, <<"project_created">>, <<>>))
       /\ reviews' = reviews \o ReviewRecords(id, reviewer_ids)
       /\ last' = Ok("createProject", args)

\* updateProject: the router's placeholder returns its input and writes
\* nothing, the status of the input included
UpdateProject(id, status) ==
  /\ callsLeft > 0
  /\ callsLeft' = callsLeft - 1
  /\ last' = Ok("updateProject", <<id, status>>)
  /\ UNCHANGED <<tables, clock, calls, comments>>

InitLife ==
  /\ projects = <<>>
  /\ reviews = <<>>
  /\ projectReviewers = <<>>
  /\ notifications = <<>>
  /\ history = <<>>
  /\ clock = 1
  /\ callsLeft = MaxLifeCalls
  /\ calls = <<>>
  /\ comments = <<>>
  /\ last = NoCall

NextLife ==
  \/ \E proposer_id \in ProposerIdInputs, reviewer_ids \in ReviewerIdsInputs :
       CreateProject(proposer_id, reviewer_ids)
  \/ \E id \in ProjectIdInputs, status \in ProjectStatus :
       UpdateProject(id, status)
  \/ Next

SpecLife == InitLife /\ [][NextLife]_vars

\* ------------------------------------------- notifications and comments
\* mutant: the user_id condition of the select and of the update is missing
OwnedBy_AnyUser(notificationId, userId) == notificationId \in DOMAIN notifications

\* where id = notificationId and user_id = userId
OwnedBy(notificationId, userId) ==
  /\ notificationId \in DOMAIN notifications
  /\ notifications[notificationId].user_id = userId

MarkNotificationAsRead(notificationId, userId) ==
  LET args == <<notificationId, userId>> IN
  /\ callsLeft > 0
  /\ callsLeft' = callsLeft - 1
  /\ UNCHANGED <<projects, reviews, projectReviewers, history, clock, calls, comments>>
  /\ IF ~OwnedBy(notificationId, userId) THEN
       /\ last' = Thrown("markNotificationAsRead", args,
                         <<"Notification not found or does not belong to user">>)
       /\ UNCHANGED notifications
     ELSE
       /\ notifications' = [notifications EXCEPT ![notificationId].is_read = TRUE]
       /\ last' = Ok("markNotificationAsRead", args)

\* update notifications set is_read = true where user_id = userId
MarkAllNotificationsAsRead(userId) ==
  /\ callsLeft > 0
  /\ callsLeft' = callsLeft - 1
  /\ notifications' =
       [k \in DOMAIN notifications |->
          IF notifications[k].user_id = userId
          THEN [notifications[k] EXCEPT !.is_read = TRUE]
          ELSE notifications[k]]
  /\ last' = Ok("markAllNotificationsAsRead", <<userId>>)
  /\ UNCHANGED <<projects, reviews, projectReviewers, history, clock, calls, comments>>

\* a parent_comment_id that is null, absent or 0: `if (input.parent_comment_id)`
\* skips the parent checks and `input.parent_comment_id || null` stores null
NoParent == 0

\* the checks of createComment, in the order of the code
CommentChecks(project_id, user_id, parent_comment_id) ==
  IF project_id \notin DOMAIN projects THEN
    <<"Project with ID ", project_id, " not found">>
  ELSE IF user_id \notin UserIds THEN <<"User with ID ", user_id, " not found">>
  ELSE IF ~users[user_id].is_active THEN <<"User with ID ", user_id, " is not active">>
  ELSE IF parent_comment_id = NoParent THEN <<>>
  ELSE IF parent_comment_id \notin DOMAIN comments THEN
    <<"Parent comment with ID ", parent_comment_id, " not found">>
  ELSE IF comments[parent_comment_id].project_id # project_id THEN
    <<"Parent comment must belong to the same project">>
  ELSE <<>>

RECURSIVE AddAll(_, _, _)
\* ids.forEach(id => { if (id !== author) set.add(id) }): a Set keeps the
\* order of the first insertion of each element
AddAll(set, ids, author) ==
  IF ids = <<>> THEN set
  ELSE AddAll(IF Head(ids) = author \/ \E k \in DOMAIN set : set[k] = Head(ids)
              THEN set ELSE Append(set, Head(ids)),
              Tail(ids), author)

\* mutant: the author is not left out
UsersToNotify_WithAuthor(project_id, user_id) ==
  AddAll(<<>>, <<projects[project_id].proposer_id>> \o ReviewerIdsOf(project_id), 0)

\* usersToNotify: the proposer, then the assigned reviewers, each once and
\* never the author of the comment
UsersToNotify(project_id, user_id) ==
  AddAll(<<>>, <<projects[project_id].proposer_id>> \o ReviewerIdsOf(project_id), user_id)

CommentAddedMessage == <<"added a comment to project">>

CreateComment(project_id, user_id, parent_comment_id) ==
  LET args   == <<project_id, user_id, parent_comment_id>>
      thrown == CommentChecks(project_id, user_id, parent_comment_id)
  IN
  /\ callsLeft > 0
  /\ callsLeft' = callsLeft - 1
  /\ UNCHANGED <<projects, reviews, projectReviewers, history, clock, calls>>
  /\ IF thrown # <<>> THEN
       /\ last' = Thrown("createComment", args, thrown)
       /\ UNCHANGED <<notifications, comments>>
     ELSE
       LET usersToNotify == UsersToNotify(project_id, user_id) IN
       /\ comments' = Append(comments,
            [project_id |-> project_id, user_id |-> user_id,
             parent_comment_id |-> parent_comment_id])
       /\ notifications' = notifications \o
            [k \in DOMAIN usersToNotify |->
               Notification(usersToNotify[k], "comment_added", project_id,
                            CommentAddedMessage)]
       /\ last' = Ok("createComment", args)

\* the reviewer_ids one project may have been created with: none, one, two,
\* the same reviewer twice, the proposer among the reviewers
InboxReviewerIds == {<<>>, <<2>>, <<2, 3>>, <<2, 2>>, <<1, 2>>}

\* the notifications the inbox starts with: up to two rows for the
\* proposer or a reviewer, read or unread
InboxNotifications ==
  LET row == {[Notification(u, "project_submitted", 1, SubmittedMessage)
                 EXCEPT !.is_read = r] : u \in {1, 2}, r \in BOOLEAN}
  IN  {<<>>} \cup {<<a>> : a \in row} \cup {<<a, b>> : a \in row, b \in row}

\* One project with its reviewers, in draft or under_review, its reviews all
\* pending or all approving; an inbox with some notifications; no or one
\* comment.  One call.
InitInbox ==
  /\ projects \in [1 .. 1 -> [status : {"draft", "under_review"}, proposer_id : {1}]]
  /\ \E ids \in InboxReviewerIds, dec \in {NULL, "approve"} :
       /\ reviews = [k \in DOMAIN ids |->
                       [ReviewRecords(1, ids)[k] EXCEPT
                          !.decision = dec,
                          !.submitted_at = IF dec = NULL THEN NullDate ELSE Date(0)]]
       /\ projectReviewers = AssignmentRows(reviews)
  /\ notifications \in InboxNotifications
  /\ history = <<>>
  /\ clock = 1
  /\ callsLeft = 1
  /\ calls = <<>>
  /\ comments \in {<<>>, <<[project_id |-> 1, user_id |-> 2, parent_comment_id |-> NoParent]>>}
  /\ last = NoCall

NextInbox ==
  \/ \E notificationId \in 1 .. (Len(notifications) + 1), userId \in UserIdInputs :
       MarkNotificationAsRead(notificationId, userId)
  \/ \E userId \in UserIdInputs : MarkAllNotificationsAsRead(userId)
  \/ \E project_id \in ProjectIdInputs, user_id \in UserIdInputs,
        parent_comment_id \in {NoParent} \cup (1 .. (Len(comments) + 1)) :
       CreateComment(project_id, user_id, parent_comment_id)
  \/ Next

SpecInbox == InitInbox /\ [][NextInbox]_vars

\* ================================================ statement by statement
\* The handlers run no transaction: every `await db...execute()` is a
\* statement of its own, and between two statements of a call the statements
\* of other calls in flight may run.  A call in flight is a row of `calls`:
\* the statement it is about to run (pc, an index into the statements of its
\* handler), the locals it has read so far, and `before`, the tables as they
\* were when the call started.  A select of the users table, which no
\* handler writes, is run together with the statement that follows it.

StorageFailure == <<"storage failure">>  \* the error of a rejected statement

\* the statements of submitProject, in the order of the code
SubmitProjectSteps ==
  <<"selectProject", "updateProjectStatus", "selectReviewers",
    "insertNotifications", "insertHistory">>

\* mutant: the final notification is inserted before the status is updated
SubmitReviewSteps_NotifyBeforeUpdate ==
  <<"selectReview", "updateReview", "selectProject",
    "insertReviewNotification", "insertReviewHistory",
    "countTotal", "countApproved", "countRejected", "countReturned", "countPending",
    "insertFinalNotification", "updateProjectStatus", "insertAdminNotification",
    "insertStatusHistory">>

\* mutant: the history entry of the review is inserted after the counts
SubmitReviewSteps_HistoryAfterCounts ==
  <<"selectReview", "updateReview", "selectProject",
    "insertReviewNotification",
    "countTotal", "countApproved", "countRejected", "countReturned", "countPending",
    "insertReviewHistory",
    "updateProjectStatus", "insertFinalNotification", "insertAdminNotification",
    "insertStatusHistory">>

\* mutant: the pending reviews are counted before the review is updated
SubmitReviewSteps_CountPendingFirst ==
  <<"selectReview", "countPending", "updateReview", "selectProject",
    "insertReviewNotification", "insertReviewHistory",
    "countTotal", "countApproved", "countRejected", "countReturned",
    "updateProjectStatus", "insertFinalNotification", "insertAdminNotification",
    "insertStatusHistory">>

\* the statements of submitReview, in the order of the code
SubmitReviewSteps ==
  <<"selectReview", "updateReview", "selectProject",
    "insertReviewNotification", "insertReviewHistory",
    "countTotal", "countApproved", "countRejected", "countReturned", "countPending",
    "updateProjectStatus", "insertFinalNotification", "insertAdminNotification",
    "insertStatusHistory">>

\* mutant: the status is updated before the reviews are checked
ApproveProjectSteps_UpdateBeforeReviews ==
  <<"selectProject", "updateProjectStatus", "selectReviews", "selectReviewerIds",
    "insertProposerNotification", "insertReviewerNotification", "insertHistory">>

\* the statements of approveProject, in the order of the code
ApproveProjectSteps ==
  <<"selectProject", "selectReviews", "updateProjectStatus", "selectReviewerIds",
    "insertProposerNotification", "insertReviewerNotification", "insertHistory">>

\* the statements of rejectProject, in the order of the code
RejectProjectSteps ==
  <<"selectProject", "updateProjectStatus", "selectReviewerIds",
    "insertProposerNotification", "insertReviewerNotification", "insertHistory">>

StepsOf(op) ==
  CASE op = "submitProject"  -> SubmitProjectSteps
    [] op = "submitReview"   -> SubmitReviewSteps
    [] op = "approveProject" -> ApproveProjectSteps
    [] op = "rejectProject"  -> RejectProjectSteps

\* the locals of a call before its first statement; a selected row is kept
\* as the array the select returns
NoLocals ==
  [existingReviews |-> <<>>, project |-> <<>>, reviewerIds |-> <<>>,
   totalReviews |-> 0, approvedReviews |-> 0, rejectedReviews |-> 0,
   returnedReviews |-> 0, pendingReviews |-> 0, newStatus |-> NULL, k |-> 0]

\* [...admins, ...systemAdmins]
AllAdmins == ActiveWithRole("director") \o ActiveWithRole("system_administrator")

\* the statements a call does not run: the aggregation block of
\* submitReview unless pendingReviews === 0, a loop whose array is used up,
\* an insert of an empty array of notifications
Skipped(call, name) ==
  \/ /\ call.op = "submitReview"
     /\ name \in {"updateProjectStatus", "insertFinalNotification",
                  "insertAdminNotification", "insertStatusHistory"}
     /\ ~RoundComplete(call.loc.pendingReviews)
  \/ /\ call.op = "submitReview"
     /\ name = "insertAdminNotification"
     /\ (call.loc.newStatus # "approved" \/ call.loc.k >= Len(AllAdmins))
  \/ /\ call.op \in {"approveProject", "rejectProject"}
     /\ name = "insertReviewerNotification"
     /\ call.loc.k >= Len(call.loc.reviewerIds)
  \/ /\ call.op = "submitProject"
     /\ name = "insertNotifications"
     /\ call.loc.reviewerIds = <<>>

RECURSIVE NextPc(_, _)
\* the first statement from pc on that the call runs; past the last
\* statement when it runs none
NextPc(call, pc) ==
  IF pc > Len(StepsOf(call.op)) THEN pc
  ELSE IF Skipped(call, StepsOf(call.op)[pc]) THEN NextPc(call, pc + 1)
  ELSE pc

\* call c is about to run statement `name` of handler op
Running(c, op, name) ==
  /\ c \in DOMAIN calls
  /\ calls[c].state = "running"
  /\ calls[c].op = op
  /\ StepsOf(op)[calls[c].pc] = name

\* call c goes on with the locals loc2 from statement `from`, and returns
\* when no statement is left
Proceed(c, loc2, from) ==
  LET call == [calls[c] EXCEPT !.loc = loc2]
      pc2  == NextPc(call, from)
  IN  IF pc2 > Len(StepsOf(call.op))
      THEN /\ calls' = [calls EXCEPT ![c] = [call EXCEPT !.state = "returned"]]
           /\ last' = Ok(call.op, call.args)
      ELSE /\ calls' = [calls EXCEPT ![c] = [call EXCEPT !.pc = pc2]]
           /\ last' = last

\* call c throws: catch (error) { console.error(...); throw error; }
Throw(c, msg) ==
  /\ calls' = [calls EXCEPT ![c].state = "thrown", ![c].error = msg]
  /\ last' = Thrown(calls[c].op, calls[c].args, msg)

\* a caller starts a call
StartCall(op, args) ==
  /\ callsLeft > 0
  /\ callsLeft' = callsLeft - 1
  /\ calls' = Append(calls,
       [op |-> op, args |-> args, pc |-> 1, state |-> "running", error |-> <<>>,
        loc |-> NoLocals, before |-> tables])
  /\ UNCHANGED <<tables, clock, last, comments>>

\* the statement call c is about to run is rejected by the database
Fail(c) ==
  /\ c \in DOMAIN calls
  /\ calls[c].state = "running"
  /\ Throw(c, StorageFailure)
  /\ UNCHANGED <<tables, clock, callsLeft, comments>>

\* ---------------------------------------------- submitProject, statements
SP_SelectProject(c) ==
  /\ Running(c, "submitProject", "selectProject")
  /\ LET projectId == calls[c].args[1]
         thrown    == SubmitChecks(projectId, calls[c].args[2])
     IN  IF thrown # <<>> THEN Throw(c, thrown)
         ELSE Proceed(c, [calls[c].loc EXCEPT !.project = <<projects[projectId]>>],
                      calls[c].pc + 1)
  /\ UNCHANGED <<tables, clock, callsLeft, comments>>

SP_UpdateProjectStatus(c) ==
  /\ Running(c, "submitProject", "updateProjectStatus")
  /\ projects' = [projects EXCEPT ![calls[c].args[1]].status = "submitted"]
  /\ Proceed(c, calls[c].loc, calls[c].pc + 1)
  /\ UNCHANGED <<reviews, projectReviewers, notifications, history, clock, callsLeft, comments>>

SP_SelectReviewers(c) ==
  /\ Running(c, "submitProject", "selectReviewers")
  /\ Proceed(c, [calls[c].loc EXCEPT !.reviewerIds = ReviewerIdsOf(calls[c].args[1])],
             calls[c].pc + 1)
  /\ UNCHANGED <<tables, clock, callsLeft, comments>>

SP_InsertNotifications(c) ==
  /\ Running(c, "submitProject", "insertNotifications")
  /\ LET reviewers == calls[c].loc.reviewerIds IN
     notifications' = notifications \o
       [k \in DOMAIN reviewers |->
          Notification(reviewers[k], "project_submitted", calls[c].args[1],
                       SubmittedMessage)]
  /\ Proceed(c, calls[c].loc, calls[c].pc + 1)
  /\ UNCHANGED <<projects, reviews, projectReviewers, history, clock, callsLeft, comments>>

SP_InsertHistory(c) ==
  /\ Running(c, "submitProject", "insertHistory")
  /\ history' = Append(history,
       HistoryEntry(calls[c].args[1], calls[c].args[2], <<"Project Submitted">>, <<>>))
  /\ Proceed(c, calls[c].loc, calls[c].pc + 1)
  /\ UNCHANGED <<projects, reviews, projectReviewers, notifications, clock, callsLeft, comments>>

\* ----------------------------------------------- submitReview, statements
SR_SelectReview(c) ==
  /\ Running(c, "submitReview", "selectReview")
  /\ LET id == calls[c].args[1] IN
     IF id \notin DOMAIN reviews
     THEN Throw(c, <<"Review with id ", id, " not found">>)
     ELSE Proceed(c, [calls[c].loc EXCEPT !.existingReviews = <<reviews[id]>>],
                  calls[c].pc + 1)
  /\ UNCHANGED <<tables, clock, callsLeft, comments>>

SR_UpdateReview(c) ==
  /\ Running(c, "submitReview", "updateReview")
  /\ reviews' = [reviews EXCEPT ![calls[c].args[1]].decision = calls[c].args[2],
                                ![calls[c].args[1]].submitted_at = Date(clock)]
  /\ clock' = clock + 1
  /\ Proceed(c, calls[c].loc, calls[c].pc + 1)
  /\ UNCHANGED <<projects, projectReviewers, notifications, history, callsLeft, comments>>

SR_SelectProject(c) ==
  /\ Running(c, "submitReview", "selectProject")
  /\ LET pid == calls[c].loc.existingReviews[1].project_id IN
     IF pid \notin DOMAIN projects
     THEN Throw(c, <<"Project with id ", pid, " not found">>)
     ELSE Proceed(c, [calls[c].loc EXCEPT !.project = <<projects[pid]>>],
                  calls[c].pc + 1)
  /\ UNCHANGED <<tables, clock, callsLeft, comments>>

SR_InsertReviewNotification(c) ==
  /\ Running(c, "submitReview", "insertReviewNotification")
  /\ notifications' = Append(notifications,
       Notification(calls[c].loc.project[1].proposer_id, "review_completed",
                    calls[c].loc.existingReviews[1].project_id,
                    ReviewCompletedMessage(calls[c].args[2])))
  /\ Proceed(c, calls[c].loc, calls[c].pc + 1)
  /\ UNCHANGED <<projects, reviews, projectReviewers, history, clock, callsLeft, comments>>

SR_InsertReviewHistory(c) ==
  /\ Running(c, "submitReview", "insertReviewHistory")
  /\ history' = Append(history,
       HistoryEntry(calls[c].loc.existingReviews[1].project_id,
                    calls[c].loc.existingReviews[1].reviewer_id,
                    <<"Review submitted with decision: ", calls[c].args[2]>>, <<>>))
  /\ Proceed(c, calls[c].loc, calls[c].pc + 1)
  /\ UNCHANGED <<projects, reviews, projectReviewers, notifications, clock, callsLeft, comments>>

SR_CountTotal(c) ==
  /\ Running(c, "submitReview", "countTotal")
  /\ Proceed(c, [calls[c].loc EXCEPT !.totalReviews =
                   TotalReviews(reviews, calls[c].loc.existingReviews[1].project_id)],
             calls[c].pc + 1)
  /\ UNCHANGED <<tables, clock, callsLeft, comments>>

SR_CountApproved(c) ==
  /\ Running(c, "submitReview", "countApproved")
  /\ Proceed(c, [calls[c].loc EXCEPT !.approvedReviews =
                   ApprovedReviews(reviews, calls[c].loc.existingReviews[1].project_id)],
             calls[c].pc + 1)
  /\ UNCHANGED <<tables, clock, callsLeft, comments>>

SR_CountRejected(c) ==
  /\ Running(c, "submitReview", "countRejected")
  /\ Proceed(c, [calls[c].loc EXCEPT !.rejectedReviews =
                   RejectedReviews(reviews, calls[c].loc.existingReviews[1].project_id)],
             calls[c].pc + 1)
  /\ UNCHANGED <<tables, clock, callsLeft, comments>>

SR_CountReturned(c) ==
  /\ Running(c, "submitReview", "countReturned")
  /\ Proceed(c, [calls[c].loc EXCEPT !.returnedReviews =
                   ReturnedReviews(reviews, calls[c].loc.existingReviews[1].project_id)],
             calls[c].pc + 1)
  /\ UNCHANGED <<tables, clock, callsLeft, comments>>

\* the last count; the aggregation block follows when pendingReviews === 0,
\* with newStatus computed from the counts read so far
SR_CountPending(c) ==
  /\ Running(c, "submitReview", "countPending")
  /\ LET loc == calls[c].loc IN
     Proceed(c, [loc EXCEPT
                   !.pendingReviews =
                      PendingReviews(reviews, loc.existingReviews[1].project_id),
                   !.newStatus = NewStatus(loc.totalReviews, loc.approvedReviews,
                                           loc.rejectedReviews, loc.returnedReviews)],
             calls[c].pc + 1)
  /\ UNCHANGED <<tables, clock, callsLeft, comments>>

SR_UpdateProjectStatus(c) ==
  /\ Running(c, "submitReview", "updateProjectStatus")
  /\ projects' = [projects EXCEPT
       ![calls[c].loc.existingReviews[1].project_id].status = calls[c].loc.newStatus]
  /\ Proceed(c, calls[c].loc, calls[c].pc + 1)
  /\ UNCHANGED <<reviews, projectReviewers, notifications, history, clock, callsLeft, comments>>

SR_InsertFinalNotification(c) ==
  /\ Running(c, "submitReview", "insertFinalNotification")
  /\ notifications' = Append(notifications,
       Notification(calls[c].loc.project[1].proposer_id,
                    FinalNotificationType(calls[c].loc.newStatus),
                    calls[c].loc.existingReviews[1].project_id,
                    FinalNotificationMessage(calls[c].loc.totalReviews,
                                             calls[c].loc.approvedReviews,
                                             calls[c].loc.rejectedReviews,
                                             calls[c].loc.returnedReviews)))
  /\ Proceed(c, calls[c].loc, calls[c].pc + 1)
  /\ UNCHANGED <<projects, reviews, projectReviewers, history, clock, callsLeft, comments>>

\* one turn of the loop over allAdmins
SR_InsertAdminNotification(c) ==
  /\ Running(c, "submitReview", "insertAdminNotification")
  /\ notifications' = Append(notifications,
       Notification(AllAdmins[calls[c].loc.k + 1], "project_approved",
                    calls[c].loc.existingReviews[1].project_id, AdminApprovedMessage))
  /\ Proceed(c, [calls[c].loc EXCEPT !.k = @ + 1], calls[c].pc)
  /\ UNCHANGED <<projects, reviews, projectReviewers, history, clock, callsLeft, comments>>

SR_InsertStatusHistory(c) ==
  /\ Running(c, "submitReview", "insertStatusHistory")
  /\ history' = Append(history,
       HistoryEntry(calls[c].loc.existingReviews[1].project_id,
                    calls[c].loc.existingReviews[1].reviewer_id,
                    <<"Project status changed to ", calls[c].loc.newStatus>>, <<>>))
  /\ Proceed(c, calls[c].loc, calls[c].pc + 1)
  /\ UNCHANGED <<projects, reviews, projectReviewers, notifications, clock, callsLeft, comments>>

\* -------------------------------- approveProject / rejectProject, statements
\* the select of the user and of the project, with their checks
AP_SelectProject(c) ==
  /\ Running(c, "approveProject", "selectProject")
  /\ LET projectId == calls[c].args[1]
         thrown    == ApproveUserProjectChecks(projectId, calls[c].args[2])
     IN  IF thrown # <<>> THEN Throw(c, thrown)
         ELSE Proceed(c, [calls[c].loc EXCEPT !.project = <<projects[projectId]>>],
                      calls[c].pc + 1)
  /\ UNCHANGED <<tables, clock, callsLeft, comments>>

AP_SelectReviews(c) ==
  /\ Running(c, "approveProject", "selectReviews")
  /\ LET thrown == ApproveReviewChecks(calls[c].args[1]) IN
     IF thrown # <<>> THEN Throw(c, thrown)
     ELSE Proceed(c, calls[c].loc, calls[c].pc + 1)
  /\ UNCHANGED <<tables, clock, callsLeft, comments>>

RP_SelectProject(c) ==
  /\ Running(c, "rejectProject", "selectProject")
  /\ LET projectId == calls[c].args[1]
         thrown    == RejectChecks(projectId, calls[c].args[2])
     IN  IF thrown # <<>> THEN Throw(c, thrown)
         ELSE Proceed(c, [calls[c].loc EXCEPT !.project = <<projects[projectId]>>],
                      calls[c].pc + 1)
  /\ UNCHANGED <<tables, clock, callsLeft, comments>>

\* what the two handlers write
DecidedStatus(op)   == IF op = "approveProject" THEN "approved" ELSE "rejected"
DecidedType(op)     == IF op = "approveProject" THEN "project_approved" ELSE "project_rejected"
DecidedAction(op)   == IF op = "approveProject" THEN <<"Project Approved">> ELSE <<"Project Rejected">>
DecidedProposerMessage(call) ==
  IF call.op = "approveProject" THEN ProposerApprovedMessage
  ELSE ProposerRejectedMessage(call.args[3])
DecidedReviewerMessage(call) ==
  IF call.op = "approveProject" THEN ReviewerApprovedMessage
  ELSE ReviewerRejectedMessage(call.args[3])
DecidedDetails(call) ==
  IF call.op = "approveProject"
  THEN <<"Project approved by ", users[call.args[2]].role>>
  ELSE <<"Project rejected by ", users[call.args[2]].role, ". Reason: ", call.args[3]>>

AP_UpdateProjectStatus(c) ==
  /\ Running(c, "approveProject", "updateProjectStatus")
  /\ projects' = [projects EXCEPT ![calls[c].args[1]].status = DecidedStatus("approveProject")]
  /\ Proceed(c, calls[c].loc, calls[c].pc + 1)
  /\ UNCHANGED <<reviews, projectReviewers, notifications, history, clock, callsLeft, comments>>

RP_UpdateProjectStatus(c) ==
  /\ Running(c, "rejectProject", "updateProjectStatus")
  /\ projects' = [projects EXCEPT ![calls[c].args[1]].status = DecidedStatus("rejectProject")]
  /\ Proceed(c, calls[c].loc, calls[c].pc + 1)
  /\ UNCHANGED <<reviews, projectReviewers, notifications, history, clock, callsLeft, comments>>

\* the statements after the update are the same in both handlers
D_SelectReviewerIds(c) ==
  /\ \E op \in {"approveProject", "rejectProject"} : Running(c, op, "selectReviewerIds")
  /\ Proceed(c, [calls[c].loc EXCEPT !.reviewerIds = ReviewerIdsOf(calls[c].args[1])],
             calls[c].pc + 1)
  /\ UNCHANGED <<tables, clock, callsLeft, comments>>

D_InsertProposerNotification(c) ==
  /\ \E op \in {"approveProject", "rejectProject"} :
       Running(c, op, "insertProposerNotification")
  /\ notifications' = Append(notifications,
       Notification(calls[c].loc.project[1].proposer_id, DecidedType(calls[c].op),
                    calls[c].args[1], DecidedProposerMessage(calls[c])))
  /\ Proceed(c, calls[c].loc, calls[c].pc + 1)
  /\ UNCHANGED <<projects, reviews, projectReviewers, history, clock, callsLeft, comments>>

\* one turn of the loop over reviewerIds
D_InsertReviewerNotification(c) ==
  /\ \E op \in {"approveProject", "rejectProject"} :
       Running(c, op, "insertReviewerNotification")
  /\ notifications' = Append(notifications,
       Notification(calls[c].loc.reviewerIds[calls[c].loc.k + 1], DecidedType(calls[c].op),
                    calls[c].args[1], DecidedReviewerMessage(calls[c])))
  /\ Proceed(c, [calls[c].loc EXCEPT !.k = @ + 1], calls[c].pc)
  /\ UNCHANGED <<projects, reviews, projectReviewers, history, clock, callsLeft, comments>>

D_InsertHistory(c) ==
  /\ \E op \in {"approveProject", "rejectProject"} : Running(c, op, "insertHistory")
  /\ history' = Append(history,
       HistoryEntry(calls[c].args[1], calls[c].args[2],
                    DecidedAction(calls[c].op), DecidedDetails(calls[c])))
  /\ Proceed(c, calls[c].loc, calls[c].pc + 1)
  /\ UNCHANGED <<projects, reviews, projectReviewers, notifications, clock, callsLeft, comments>>

\* ------------------------------------------- statement-level specifications
StartSubmitProject ==
  \E projectId \in ProjectIdInputs, userId \in UserIdInputs :
    StartCall("submitProject", <<projectId, userId>>)

StartSubmitReview ==
  \E id \in ReviewIdInputs, decision \in ReviewDecision :
    StartCall("submitReview", <<id, decision>>)

StartApproveProject(userIds) ==
  \E projectId \in ProjectIdInputs, userId \in userIds :
    StartCall("approveProject", <<projectId, userId>>)

StartRejectProject(userIds) ==
  \E projectId \in ProjectIdInputs, userId \in userIds, reason \in ReasonInputs :
    StartCall("rejectProject", <<projectId, userId, reason>>)

\* One call, statement by statement, from every content of the tables; any
\* of its statements may be rejected by the database.
NextStatements ==
  \/ StartSubmitProject
  \/ StartSubmitReview
  \/ StartApproveProject(UserIdInputs)
  \/ StartRejectProject(UserIdInputs)
  \/ \E c \in DOMAIN calls : SP_SelectProject(c)
  \/ \E c \in DOMAIN calls : SP_UpdateProjectStatus(c)
  \/ \E c \in DOMAIN calls : SP_SelectReviewers(c)
  \/ \E c \in DOMAIN calls : SP_InsertNotifications(c)
  \/ \E c \in DOMAIN calls : SP_InsertHistory(c)
  \/ \E c \in DOMAIN calls : SR_SelectReview(c)
  \/ \E c \in DOMAIN calls : SR_UpdateReview(c)
  \/ \E c \in DOMAIN calls : SR_SelectProject(c)
  \/ \E c \in DOMAIN calls : SR_InsertReviewNotification(c)
  \/ \E c \in DOMAIN calls : SR_InsertReviewHistory(c)
  \/ \E c \in DOMAIN calls : SR_CountTotal(c)
  \/ \E c \in DOMAIN calls : SR_CountApproved(c)
  \/ \E c \in DOMAIN calls : SR_CountRejected(c)
  \/ \E c \in DOMAIN calls : SR_CountReturned(c)
  \/ \E c \in DOMAIN calls : SR_CountPending(c)
  \/ \E c \in DOMAIN calls : SR_UpdateProjectStatus(c)
  \/ \E c \in DOMAIN calls : SR_InsertFinalNotification(c)
  \/ \E c \in DOMAIN calls : SR_InsertAdminNotification(c)
  \/ \E c \in DOMAIN calls : SR_InsertStatusHistory(c)
  \/ \E c \in DOMAIN calls : AP_SelectProject(c)
  \/ \E c \in DOMAIN calls : AP_SelectReviews(c)
  \/ \E c \in DOMAIN calls : AP_UpdateProjectStatus(c)
  \/ \E c \in DOMAIN calls : RP_SelectProject(c)
  \/ \E c \in DOMAIN calls : RP_UpdateProjectStatus(c)
  \/ \E c \in DOMAIN calls : D_SelectReviewerIds(c)
  \/ \E c \in DOMAIN calls : D_InsertProposerNotification(c)
  \/ \E c \in DOMAIN calls : D_InsertReviewerNotification(c)
  \/ \E c \in DOMAIN calls : D_InsertHistory(c)
  \/ \E c \in DOMAIN calls : Fail(c)

SpecStatements == Init /\ [][NextStatements]_vars

\* Two calls of a review round (submitReview, approveProject, rejectProject)
\* on one project running concurrently from the start of the round, their
\* statements interleaved; no statement is rejected.
\* the callers of a race: a reviewer, whom the role check refuses, and a
\* director, whom it lets pass
RaceUserIdInputs == {2, 4}

\* the start of the review round of one project, and two calls to make
InitRace ==
  /\ projects = <<[status |-> "under_review", proposer_id |-> 1]>>
  /\ \E nr \in 0 .. (MaxRows - 1) :
       reviews = ReviewRows([i \in 1 .. nr |-> 1], [i \in 1 .. nr |-> NULL])
  /\ projectReviewers = AssignmentRows(reviews)
  /\ notifications = <<>>
  /\ history = <<>>
  /\ clock = 1
  /\ callsLeft = 2
  /\ calls = <<>>
  /\ comments = <<>>
  /\ last = NoCall

NextRace ==
  \/ StartSubmitReview
  \/ StartApproveProject(RaceUserIdInputs)
  \/ StartRejectProject(RaceUserIdInputs)
  \/ \E c \in DOMAIN calls : SR_SelectReview(c)
  \/ \E c \in DOMAIN calls : SR_UpdateReview(c)
  \/ \E c \in DOMAIN calls : SR_SelectProject(c)
  \/ \E c \in DOMAIN calls : SR_InsertReviewNotification(c)
  \/ \E c \in DOMAIN calls : SR_InsertReviewHistory(c)
  \/ \E c \in DOMAIN calls : SR_CountTotal(c)
  \/ \E c \in DOMAIN calls : SR_CountApproved(c)
  \/ \E c \in DOMAIN calls : SR_CountRejected(c)
  \/ \E c \in DOMAIN calls : SR_CountReturned(c)
  \/ \E c \in DOMAIN calls : SR_CountPending(c)
  \/ \E c \in DOMAIN calls : SR_UpdateProjectStatus(c)
  \/ \E c \in DOMAIN calls : SR_InsertFinalNotification(c)
  \/ \E c \in DOMAIN calls : SR_InsertAdminNotification(c)
  \/ \E c \in DOMAIN calls : SR_InsertStatusHistory(c)
  \/ \E c \in DOMAIN calls : AP_SelectProject(c)
  \/ \E c \in DOMAIN calls : AP_SelectReviews(c)
  \/ \E c \in DOMAIN calls : AP_UpdateProjectStatus(c)
  \/ \E c \in DOMAIN calls : RP_SelectProject(c)
  \/ \E c \in DOMAIN calls : RP_UpdateProjectStatus(c)
  \/ \E c \in DOMAIN calls : D_SelectReviewerIds(c)
  \/ \E c \in DOMAIN calls : D_InsertProposerNotification(c)
  \/ \E c \in DOMAIN calls : D_InsertReviewerNotification(c)
  \/ \E c \in DOMAIN calls : D_InsertHistory(c)

SpecRace == InitRace /\ [][NextRace]_vars


\* =================================================================== claims
\* vocabulary of the claims
TerminalStatus == {"approved", "rejected", "returned"}

\* the review a submitReview call named, and its project
CalledReview     == last.args[1]
CalledReviewed   == last.op = "submitReview" /\ last.ok
ProjectOfReview(id) == reviews[id].project_id

\* every review of project p has a non-null submitted_at
AllSubmitted(p) ==
  \A i \in DOMAIN reviews : reviews[i].project_id = p => reviews[i].submitted_at # NullDate

DecisionsOf(p) == {reviews[i].decision : i \in {j \in DOMAIN reviews : reviews[j].project_id = p}}

\* C1: once a project's status is approved, rejected or returned, no later
\* call of submitProject, submitReview, approveProject or rejectProject
\* changes that project's status.
C1_TerminalStatusNeverChanges ==
  [][\A p \in DOMAIN projects :
       projects[p].status \in TerminalStatus =>
         projects'[p].status = projects[p].status]_vars

\* C2: every status change is an edge of the state machine (draft ->
\* submitted, submitted -> under_review, under_review -> approved, rejected
\* or returned); in particular the aggregation step of submitReview changes
\* the status only of a project that is under_review: a submitReview call
\* never changes the status of a project that is in draft or submitted.
\* The formula states this particular case.
C2_AggregationOnlyFromUnderReview ==
  [][\A p \in DOMAIN projects :
       (last'.op = "submitReview" /\ projects[p].status \in {"draft", "submitted"}) =>
         projects'[p].status = projects[p].status]_vars

\* C3: when a submitReview call completes the review round of a project and
\* at least one review of the project has decision reject, the project's
\* status is rejected after the call, whatever other decisions coexist.
C3_RejectTakesPrecedence ==
  CalledReviewed =>
    LET p == ProjectOfReview(CalledReview) IN
    (AllSubmitted(p) /\ "reject" \in DecisionsOf(p)) => projects[p].status = "rejected"

\* a call completed a round in which a reject coexists with another decision
C3_Witness ==
  /\ CalledReviewed
  /\ LET p == ProjectOfReview(CalledReview) IN
     /\ AllSubmitted(p)
     /\ "reject" \in DecisionsOf(p)
     /\ DecisionsOf(p) \cap {"approve", "return"} # {}
     /\ projects[p].status = "rejected"

FinalOutcomeTypes == {"project_approved", "project_rejected", "project_returned"}

\* the rows a step appended to a table
Appended(old, new) == SubSeq(new, Len(old) + 1, Len(new))

\* C4: submitReview applies the aggregate transition exactly when, after its
\* update, every review of the project has a non-null submitted_at; a call
\* that leaves a review of the project unsubmitted changes no project status
\* and creates no final-outcome notification and no status-change history entry.
C4_AggregatesIffAllSubmitted ==
  [][\A id \in DOMAIN reviews :
       (last'.op = "submitReview" /\ last'.ok /\ last'.args[1] = id) =>
         LET p        == reviews[id].project_id
             newNotes == Appended(notifications, notifications')
             newHist  == Appended(history, history')
             finals   == {k \in DOMAIN newNotes : newNotes[k].type \in FinalOutcomeTypes}
             changes  == {k \in DOMAIN newHist :
                            newHist[k].action[1] = "Project status changed to "}
         IN  IF AllSubmitted(p)'
             THEN Cardinality({k \in finals : newNotes[k].user_id = projects[p].proposer_id}) = 1
                  /\ Cardinality(changes) = 1
             ELSE projects' = projects /\ finals = {} /\ changes = {}]_vars

\* a call on an under_review project left its round incomplete
C4_Witness ==
  /\ CalledReviewed
  /\ LET p == ProjectOfReview(CalledReview) IN
     /\ ~AllSubmitted(p)
     /\ projects[p].status = "under_review"
     /\ Len(history) = 1
     /\ Len(notifications) = 1
     /\ notifications[1].type = "review_completed"

\* C5: when a submitReview call completes the review round of a project and
\* the reviews contain no reject and no return decision, the project's
\* status is approved after the call.
C5_AllApproveGivesApproved ==
  CalledReviewed =>
    LET p == ProjectOfReview(CalledReview) IN
    (AllSubmitted(p) /\ DecisionsOf(p) \cap {"reject", "return"} = {}) =>
      projects[p].status = "approved"

\* a call completed a round of approve decisions
C5_Witness ==
  /\ CalledReviewed
  /\ LET p == ProjectOfReview(CalledReview) IN
     /\ AllSubmitted(p)
     /\ DecisionsOf(p) = {"approve"}
     /\ projects[p].status = "approved"

\* C6: when a submitReview call completes the review round of a project, no
\* review has decision reject and at least one has decision return, the
\* project's status is returned after the call.
C6_ReturnBeforeApprove ==
  CalledReviewed =>
    LET p == ProjectOfReview(CalledReview) IN
    (AllSubmitted(p) /\ "reject" \notin DecisionsOf(p) /\ "return" \in DecisionsOf(p)) =>
      projects[p].status = "returned"

\* a call completed a round in which a return coexists with an approve
C6_Witness ==
  /\ CalledReviewed
  /\ LET p == ProjectOfReview(CalledReview) IN
     /\ AllSubmitted(p)
     /\ DecisionsOf(p) = {"approve", "return"}
     /\ projects[p].status = "returned"

\* the error kinds of the spec, by the messages the handlers throw
DecisionRoles == {"director", "system_administrator"}

IsForbidden(error) ==
  error \in
    {<<"Insufficient permissions: only directors and system administrators can approve projects">>,
     <<"Insufficient permissions: only directors and system administrators can reject projects">>}

IsReviewsIncomplete(error) ==
  error \in {<<"No reviews found for this project">>,
             <<"Cannot approve project: some reviews are not yet submitted">>}

IsReviewsNotAllApproved(error) ==
  error \in {<<"Cannot approve project: some reviews have rejected the project">>,
             <<"Cannot approve project: some reviews have returned the project">>}

InvalidStateMessage(op, status) ==
  IF op = "approveProject"
  THEN <<"Project cannot be approved from status: ", status>>
  ELSE <<"Project cannot be rejected from status: ", status>>

\* C7: approveProject and rejectProject fail with Forbidden for every caller
\* whose role is not director or system_administrator, whatever the project
\* id, status and reviews, and the failed call changes no table.
C7_OtherRolesForbidden ==
  [][\A u \in UserIds :
       (/\ last'.op \in {"approveProject", "rejectProject"}
        /\ last'.args[2] = u
        /\ users[u].role \notin DecisionRoles) =>
         ~last'.ok /\ IsForbidden(last'.error) /\ UNCHANGED <<tables, clock>>]_vars

\* a reviewer or proposer was refused on a project a director could approve
C7_Witness ==
  /\ last.op = "approveProject"
  /\ IsForbidden(last.error)
  /\ last.args[1] \in DOMAIN projects
  /\ projects[last.args[1]].status = "under_review"
  /\ DecisionsOf(last.args[1]) = {"approve"}

\* C8: approveProject called by a director or system_administrator on an
\* under_review project succeeds only if the project has a review, every
\* review is submitted and none has decision reject or return; it fails with
\* ReviewsIncomplete when there is no review or an unsubmitted one, and
\* otherwise with ReviewsNotAllApproved when a reject or return decision
\* exists; a failed call leaves the status under_review.
C8_ApproveNeedsAllApproved ==
  [][\A p \in DOMAIN projects, u \in UserIds :
       (/\ last'.op = "approveProject"
        /\ last'.args = <<p, u>>
        /\ users[u].role \in DecisionRoles
        /\ projects[p].status = "under_review") =>
         LET none  == \A i \in DOMAIN reviews : reviews[i].project_id # p
             unsub == ~AllSubmitted(p)
             bad   == DecisionsOf(p) \cap {"reject", "return"} # {}
         IN  /\ last'.ok => (~none /\ ~unsub /\ ~bad)
             /\ (none \/ unsub) =>
                  (~last'.ok /\ IsReviewsIncomplete(last'.error) /\ projects' = projects)
             /\ (~none /\ ~unsub /\ bad) =>
                  (~last'.ok /\ IsReviewsNotAllApproved(last'.error) /\ projects' = projects)]_vars

\* a director was refused because a submitted review asks for a return
C8_Witness ==
  /\ last.op = "approveProject"
  /\ ~last.ok
  /\ IsReviewsNotAllApproved(last.error)
  /\ projects[last.args[1]].status = "under_review"
  /\ "return" \in DecisionsOf(last.args[1])
  /\ "reject" \notin DecisionsOf(last.args[1])

\* C9: approveProject and rejectProject called by a director or
\* system_administrator on a project whose status is not under_review fail
\* with InvalidState, the message names the project's current status, and
\* the status is unchanged.
C9_InvalidStateNamesStatus ==
  [][\A p \in DOMAIN projects, u \in UserIds :
       (/\ last'.op \in {"approveProject", "rejectProject"}
        /\ last'.args[1] = p
        /\ last'.args[2] = u
        /\ users[u].role \in DecisionRoles
        /\ projects[p].status # "under_review") =>
         /\ ~last'.ok
         /\ last'.error = InvalidStateMessage(last'.op, projects[p].status)
         /\ projects' = projects]_vars

\* approveProject was refused on a draft project, the message naming draft
C9_Witness ==
  /\ last.op = "approveProject"
  /\ last.error = <<"Project cannot be approved from status: ", "draft">>
  /\ projects[last.args[1]].status = "draft"

\* C10: rejectProject called by a director or system_administrator on an
\* under_review project succeeds and sets the status to rejected, whatever
\* the reviews of the project are.
C10_RejectIgnoresReviews ==
  [][\A p \in DOMAIN projects, u \in UserIds :
       (/\ last'.op = "rejectProject"
        /\ last'.args[1] = p
        /\ last'.args[2] = u
        /\ users[u].role \in DecisionRoles
        /\ projects[p].status = "under_review") =>
         last'.ok /\ projects'[p].status = "rejected"]_vars

\* a project with an unsubmitted review was rejected
C10_Witness ==
  /\ last.op = "rejectProject"
  /\ last.ok
  /\ projects[last.args[1]].status = "rejected"
  /\ ~AllSubmitted(last.args[1])

\* C11: submitProject succeeds only when the project's status is draft and
\* the caller is the project's proposer, and then the status is submitted;
\* a caller who is not the proposer gets Forbidden, and the proposer of a
\* project that is not in draft gets InvalidState.
C11_SubmitNeedsDraftAndProposer ==
  [][\A p \in DOMAIN projects, u \in UserIdInputs :
       (last'.op = "submitProject" /\ last'.args = <<p, u>>) =>
         /\ last'.ok => /\ projects[p].status = "draft"
                        /\ u = projects[p].proposer_id
                        /\ projects'[p].status = "submitted"
         /\ u # projects[p].proposer_id =>
              (~last'.ok /\ last'.error = <<"Only the project proposer can submit the project">>)
         /\ (u = projects[p].proposer_id /\ projects[p].status # "draft") =>
              (~last'.ok /\ last'.error = <<"Only draft projects can be submitted">>)]_vars

\* the proposer was refused on a project that is already under review
C11_Witness ==
  /\ last.op = "submitProject"
  /\ last.error = <<"Only draft projects can be submitted">>
  /\ last.args[2] = projects[last.args[1]].proposer_id
  /\ projects[last.args[1]].status = "under_review"

\* C13: a review's decision and submitted_at are set exactly once: once a
\* review has a non-null submitted_at, no later call changes its decision or
\* its submitted_at.
C13_ReviewSetOnce ==
  [][\A id \in DOMAIN reviews :
       reviews[id].submitted_at # NullDate =>
         /\ reviews'[id].decision = reviews[id].decision
         /\ reviews'[id].submitted_at = reviews[id].submitted_at]_vars

\* ------------------------------------------- claims on the statement level
\* the tables as they were when call c started
ProjectsBefore(c)      == calls[c].before[1]
ReviewsBefore(c)       == calls[c].before[2]
NotificationsBefore(c) == calls[c].before[4]
HistoryBefore(c)       == calls[c].before[5]

PreconditionErrors ==
  {<<"Project not found">>, <<"User not found">>,
   <<"Only the project proposer can submit the project">>,
   <<"Only draft projects can be submitted">>,
   <<"No reviews found for this project">>,
   <<"Cannot approve project: some reviews are not yet submitted">>,
   <<"Cannot approve project: some reviews have rejected the project">>,
   <<"Cannot approve project: some reviews have returned the project">>,
   <<"Insufficient permissions: only directors and system administrators can approve projects">>,
   <<"Insufficient permissions: only directors and system administrators can reject projects">>}
  \cup {<<"Review with id ", id, " not found">> : id \in 1 .. (MaxRows + 1)}
  \cup {InvalidStateMessage(op, st) : op \in {"approveProject", "rejectProject"},
                                      st \in ProjectStatus}

\* C12: when a precondition check of submitProject, submitReview,
\* approveProject or rejectProject fails (not found, forbidden, invalid
\* state, reviews incomplete or not all approved), every table is as it was
\* when the call started: no status, review, notification or history entry
\* is created or changed.
C12_FailedCheckChangesNothing ==
  \A c \in DOMAIN calls :
    (calls[c].state = "thrown" /\ calls[c].error \in PreconditionErrors) =>
      tables = calls[c].before

\* approveProject was refused by its last check, the one next to its writes
C12_Witness ==
  \E c \in DOMAIN calls :
    /\ calls[c].op = "approveProject"
    /\ calls[c].state = "thrown"
    /\ calls[c].error = <<"Cannot approve project: some reviews have returned the project">>
    /\ projects[calls[c].args[1]].status = "under_review"
    /\ tables = calls[c].before

\* C17: when a statement fails inside submitProject, submitReview,
\* approveProject or rejectProject, the call throws and every table is as
\* it was when the call started.
C17_StorageFailureLeavesNoPartialMutation ==
  \A c \in DOMAIN calls :
    (calls[c].state = "thrown" /\ calls[c].error = StorageFailure) =>
      tables = calls[c].before

\* the status a notification type or a history action reports
ReportedByType(type) ==
  CASE type = "project_submitted" -> "submitted"
    [] type = "project_approved"  -> "approved"
    [] type = "project_rejected"  -> "rejected"
    [] type = "project_returned"  -> "returned"
    [] OTHER -> NULL

ReportedByAction(action) ==
  CASE action = <<"Project Submitted">> -> "submitted"
    [] action = <<"Project Approved">>  -> "approved"
    [] action = <<"Project Rejected">>  -> "rejected"
    [] action[1] = "Project status changed to " -> action[2]
    [] OTHER -> NULL

\* C18: every final-outcome notification, every project_submitted
\* notification and every status-change history entry is created after the
\* status it reports has been written: a statement that inserts one finds
\* the project in the reported status.
C18_ReportsFollowTheStatusWrite ==
  [][/\ \A k \in DOMAIN Appended(notifications, notifications') :
          LET n == Appended(notifications, notifications')[k] IN
          ReportedByType(n.type) # NULL =>
            projects[n.project_id].status = ReportedByType(n.type)
     /\ \A k \in DOMAIN Appended(history, history') :
          LET h == Appended(history, history')[k] IN
          ReportedByAction(h.action) # NULL =>
            projects[h.project_id].status = ReportedByAction(h.action)]_vars

\* a submitReview call has written rejected and notified it, and has not
\* yet logged the change
C18_Witness ==
  \E c \in DOMAIN calls :
    /\ Running(c, "submitReview", "insertStatusHistory")
    /\ ProjectsBefore(c)[1].status = "under_review"
    /\ projects[1].status = "rejected"
    /\ notifications[Len(notifications)].type = "project_rejected"

\* the call has run every statement that precedes the counts
PastReviewInserts(c) ==
  \/ calls[c].state = "returned"
  \/ /\ calls[c].state = "running"
     /\ StepsOf(calls[c].op)[calls[c].pc] \in
          {"countTotal", "countApproved", "countRejected", "countReturned", "countPending",
           "updateProjectStatus", "insertFinalNotification", "insertAdminNotification",
           "insertStatusHistory"}

\* C20: a submitReview call that has reached the counts of the aggregation,
\* or has returned, has stored its decision and a non-null submitted_at on
\* its review and changed no other review, has created exactly one
\* review_completed notification, addressed to the project's proposer, and
\* exactly one 'Review submitted' history entry, attributed to the review's
\* reviewer, whether or not the round is complete.
C20_ReviewRecordedBeforeAggregation ==
  \A c \in DOMAIN calls :
    (calls[c].op = "submitReview" /\ PastReviewInserts(c)) =>
      LET id       == calls[c].args[1]
          p        == reviews[id].project_id
          newNotes == Appended(NotificationsBefore(c), notifications)
          newHist  == Appended(HistoryBefore(c), history)
          done     == {k \in DOMAIN newNotes : newNotes[k].type = "review_completed"}
          logged   == {k \in DOMAIN newHist :
                         newHist[k].action[1] = "Review submitted with decision: "}
      IN  /\ reviews[id].decision = calls[c].args[2]
          /\ reviews[id].submitted_at # NullDate
          /\ \A j \in DOMAIN reviews : j # id => reviews[j] = ReviewsBefore(c)[j]
          /\ Cardinality(done) = 1
          /\ \A k \in done : /\ newNotes[k].user_id = projects[p].proposer_id
                              /\ newNotes[k].project_id = p
          /\ Cardinality(logged) = 1
          /\ \A k \in logged : /\ newHist[k].user_id = reviews[id].reviewer_id
                                /\ newHist[k].action[2] = calls[c].args[2]
                                /\ newHist[k].project_id = p

\* a call that leaves the round incomplete is about to count, its review,
\* notification and history entry written
C20_Witness ==
  \E c \in DOMAIN calls :
    /\ Running(c, "submitReview", "countTotal")
    /\ ~AllSubmitted(reviews[calls[c].args[1]].project_id)
    /\ reviews[calls[c].args[1]].decision = "return"
    /\ Len(notifications) = 1
    /\ Len(history) = 1

\* --------------------------------------------- claims on concurrent calls
AllCallsFinished ==
  callsLeft = 0 /\ \A c \in DOMAIN calls : calls[c].state # "running"

StatusChangeEntries(p) ==
  {k \in DOMAIN history : /\ history[k].project_id = p
                           /\ history[k].action[1] = "Project status changed to "}

FinalNotificationsTo(u, p) ==
  {k \in DOMAIN notifications : /\ notifications[k].project_id = p
                                 /\ notifications[k].user_id = u
                                 /\ notifications[k].type \in FinalOutcomeTypes}

\* C14: when the last pending reviews of a project are submitted by
\* concurrent submitReview calls, exactly one of the calls aggregates: once
\* the two calls that submitted the two reviews of the project have
\* returned, the project has exactly one status-change history entry and
\* its proposer exactly one final-outcome notification.
C14_OneAggregationPerRound ==
  \A c1, c2 \in DOMAIN calls :
    (/\ c1 # c2
     /\ calls[c1].op = "submitReview" /\ calls[c1].state = "returned"
     /\ calls[c2].op = "submitReview" /\ calls[c2].state = "returned"
     /\ calls[c1].args[1] # calls[c2].args[1]
     /\ Len(reviews) = 2) =>
      /\ Cardinality(StatusChangeEntries(1)) = 1
      /\ Cardinality(FinalNotificationsTo(projects[1].proposer_id, 1)) = 1

\* C15: in no interleaving of the submitReview calls for the pending
\* reviews of a project do all calls find the round incomplete: once every
\* call has finished and every review of the project is submitted, a
\* submitReview call has counted zero pending reviews and the status is
\* approved, rejected or returned.
C15_SomeCallAggregates ==
  (AllCallsFinished /\ Len(reviews) > 0 /\ AllSubmitted(1)) =>
    /\ \E c \in DOMAIN calls :
         /\ calls[c].op = "submitReview"
         /\ calls[c].state = "returned"
         /\ RoundComplete(calls[c].loc.pendingReviews)
    /\ projects[1].status \in TerminalStatus

\* two calls for the two reviews of the project overlapped: the second
\* started after the first had updated its review and before it had logged
\* it, and only one of them found the round complete
C15_Witness ==
  /\ AllCallsFinished
  /\ Len(calls) = 2 /\ Len(reviews) = 2
  /\ calls[1].op = "submitReview" /\ calls[1].state = "returned"
  /\ calls[2].op = "submitReview" /\ calls[2].state = "returned"
  /\ calls[1].args[1] # calls[2].args[1]
  /\ ReviewsBefore(2)[calls[1].args[1]].submitted_at # NullDate
  /\ HistoryBefore(2) = <<>>
  /\ Cardinality(StatusChangeEntries(1)) = 1
  /\ projects[1].status \in TerminalStatus

\* C16: of two approveProject / rejectProject calls running concurrently on
\* the same under_review project at most one succeeds.
C16_OneOverrideSucceeds ==
  \A c1, c2 \in DOMAIN calls :
    (/\ c1 # c2
     /\ calls[c1].op \in {"approveProject", "rejectProject"}
     /\ calls[c2].op \in {"approveProject", "rejectProject"}
     /\ calls[c1].args[1] = calls[c2].args[1]) =>
      ~(calls[c1].state = "returned" /\ calls[c2].state = "returned")

\* ------------------------------------------ claims on the life of a project
\* Under SpecLife no project is ever under_review, and so approveProject and
\* rejectProject never succeed.
UnderReviewNeverReached ==
  /\ \A p \in DOMAIN projects : projects[p].status # "under_review"
  /\ last.op \in {"approveProject", "rejectProject"} => ~last.ok

\* C19: a project that has been submitted is moved from submitted to
\* under_review when its review starts, so that under_review is reached by
\* a project made by createProject: when a review of the project is
\* submitted, the project is under_review.
C19_UnderReviewWhenReviewed ==
  [][\A id \in DOMAIN reviews :
       (last'.op = "submitReview" /\ last'.ok /\ last'.args[1] = id
        /\ projects[reviews[id].project_id].status \in {"submitted", "under_review"}) =>
         projects[reviews[id].project_id].status = "under_review"]_vars


\* ------------------------------------------------- notifications and history
\* the rows of a sequence of notifications addressed to user u
NotificationsTo(seq, u) == {k \in DOMAIN seq : seq[k].user_id = u}

\* the step was a successful submitReview that left no review of the
\* project of the named review unsubmitted
CompletesRound ==
  /\ last'.op = "submitReview" /\ last'.ok
  /\ \A i \in DOMAIN reviews' :
       reviews'[i].project_id = reviews'[last'.args[1]].project_id
         => reviews'[i].submitted_at # NullDate

ScenarioA(p) ==
  /\ callsLeft = MaxRoundCalls - 2
  /\ Cardinality(ReviewsOf(reviews, p)) = 2
  /\ \A i \in ReviewsOf(reviews, p) :
       reviews[i].decision = "approve" /\ reviews[i].submitted_at # NullDate

ApprovalNotificationsTo(u, p) ==
  {k \in NotificationsTo(notifications, u) :
     notifications[k].type = "project_approved" /\ notifications[k].project_id = p}

ActiveDeciders == {u \in UserIds : users[u].role \in DecisionRoles /\ users[u].is_active}

Assignments(p, u) ==
  Cardinality({i \in DOMAIN projectReviewers :
                 /\ projectReviewers[i].project_id = p
                 /\ projectReviewers[i].reviewer_id = u})

\* the notifications a step added are all of one type, for project p, and
\* go to the proposer (one) and to the assigned reviewers (one per assignment)
NotifiesProposerAndReviewers(p, type) ==
  LET new == Appended(notifications, notifications') IN
  /\ \A k \in DOMAIN new : new[k].type = type /\ new[k].project_id = p /\ ~new[k].is_read
  /\ \A u \in UserIds :
       Cardinality(NotificationsTo(new, u)) =
         (IF u = projects[p].proposer_id THEN 1 ELSE 0) + Assignments(p, u)

\* C23: a successful approveProject sets the status to approved, creates
\* exactly one project_approved notification for the proposer and one for
\* each assigned reviewer and none for anybody else, and appends exactly one
\* history entry, with action 'Project Approved' and the caller as user.
C23_ApproveWritesStatusNotificationsHistory ==
  [][(last'.op = "approveProject" /\ last'.ok) =>
       LET p == last'.args[1]
           h == Appended(history, history')
       IN  /\ projects'[p].status = "approved"
           /\ NotifiesProposerAndReviewers(p, "project_approved")
           /\ Len(h) = 1
           /\ h[1].action = <<"Project Approved">>
           /\ h[1].user_id = last'.args[2]
           /\ h[1].project_id = p
     ]_vars

\* approveProject succeeded on a project with an assigned reviewer
C23_Witness ==
  /\ last.op = "approveProject" /\ last.ok
  /\ projects[last.args[1]].status = "approved"
  /\ \E u \in UserIds : Assignments(last.args[1], u) > 0
  /\ Len(notifications) >= 2


\* a text built from a template contains the string s as one of its parts
Contains(text, s) == \E k \in DOMAIN text : text[k] = s

\* C24: a successful rejectProject sets the status to rejected, notifies the
\* proposer and every assigned reviewer with a project_rejected
\* notification, and the message of every notification it creates and the
\* details of the single history entry it appends contain the reason given.
C24_RejectCarriesReason ==
  [][(last'.op = "rejectProject" /\ last'.ok) =>
       LET p      == last'.args[1]
           reason == last'.args[3]
           new    == Appended(notifications, notifications')
           h      == Appended(history, history')
       IN  /\ projects'[p].status = "rejected"
           /\ NotifiesProposerAndReviewers(p, "project_rejected")
           /\ \A k \in DOMAIN new : Contains(new[k].message, reason)
           /\ Len(h) = 1
           /\ h[1].action = <<"Project Rejected">>
           /\ h[1].project_id = p
           /\ Contains(h[1].details, reason)
     ]_vars

\* rejectProject succeeded on a project with an assigned reviewer, who holds
\* a notification with the reason
C24_Witness ==
  /\ last.op = "rejectProject" /\ last.ok
  /\ projects[last.args[1]].status = "rejected"
  /\ \E k \in DOMAIN notifications :
       /\ Assignments(last.args[1], notifications[k].user_id) > 0
       /\ Contains(notifications[k].message, last.args[3])


\* C25: a successful submitProject creates exactly one project_submitted
\* notification for each reviewer assigned to the project and none for any
\* other user (none at all when the project has no reviewer), and appends
\* exactly one history entry, with action 'Project Submitted' and the
\* proposer as user.
C25_SubmitNotifiesAssignedReviewers ==
  [][(last'.op = "submitProject" /\ last'.ok) =>
       LET p   == last'.args[1]
           new == Appended(notifications, notifications')
           h   == Appended(history, history')
       IN  /\ \A k \in DOMAIN new :
                /\ new[k].type = "project_submitted"
                /\ new[k].project_id = p
                /\ ~new[k].is_read
           /\ \A u \in UserIds : Cardinality(NotificationsTo(new, u)) = Assignments(p, u)
           /\ (\A u \in UserIds : Assignments(p, u) = 0) => new = <<>>
           /\ Len(h) = 1
           /\ h[1].action = <<"Project Submitted">>
           /\ h[1].user_id = projects[p].proposer_id
           /\ h[1].project_id = p
     ]_vars

\* submitProject succeeded on a project with two reviewers, each of whom
\* holds a notification
C25_Witness ==
  /\ last.op = "submitProject" /\ last.ok
  /\ Cardinality({u \in UserIds : Assignments(last.args[1], u) > 0}) = 2
  /\ \A u \in UserIds :
       Assignments(last.args[1], u) > 0 => NotificationsTo(notifications, u) # {}


\* ---------------------------------------------------------- createProject
\* the reviewer ids of the reviews of project p, in id order
ReviewReviewerIdsOf(p) ==
  LET rows == SortedSeq(ReviewsOf(reviews, p))
  IN  [k \in DOMAIN rows |-> reviews[rows[k]].reviewer_id]

\* the step was a createProject call that returned, for project id
Created(id) ==
  /\ last'.op = "createProject" /\ last'.ok
  /\ callsLeft' < callsLeft
  /\ id = Len(projects')

C27_AssignmentsAreReviewers ==
  /\ \A i \in DOMAIN projectReviewers :
       users[projectReviewers[i].reviewer_id].role = "reviewer"
  /\ \A i \in DOMAIN reviews : users[reviews[i].reviewer_id].role = "reviewer"


\* --------------------------------------------------------------- history
\* the step was a successful call of an operation that writes the status of
\* project p
WritesStatus(p) ==
  /\ last'.ok
  /\ callsLeft' < callsLeft
  /\ \/ last'.op \in {"submitProject", "approveProject", "rejectProject"} /\ last'.args[1] = p
     \/ CompletesRound /\ reviews'[last'.args[1]].project_id = p

\* C28: the history is append-only and records each status change once: no
\* step changes or removes an entry; a project's status changes only in a
\* successful submitProject, approveProject or rejectProject or in the
\* submitReview that completes the round; and each of these appends exactly
\* one entry that reports a status, for that project and with the status
\* the project then has.
C28_HistoryAppendOnlyOnePerChange ==
  [][/\ Len(history') >= Len(history)
     /\ SubSeq(history', 1, Len(history)) = history
     /\ \A p \in DOMAIN projects :
          LET h        == Appended(history, history')
              reported == {k \in DOMAIN h : ReportedByAction(h[k].action) # NULL}
          IN  /\ projects'[p].status # projects[p].status => WritesStatus(p)
              /\ WritesStatus(p) =>
                   /\ Cardinality(reported) = 1
                   /\ \A k \in reported :
                        /\ h[k].project_id = p
                        /\ ReportedByAction(h[k].action) = projects'[p].status
     ]_vars

\* the second call of a run changed a status and the history holds the
\* entries of both calls
C28_Witness ==
  /\ callsLeft = MaxRoundCalls - 2
  /\ last.ok /\ last.op \in {"approveProject", "rejectProject"}
  /\ Len(history) >= 3
  /\ history[1].action[1] = "Review submitted with decision: "
  /\ ReportedByAction(history[Len(history)].action) = projects[last.args[1]].status


\* ------------------------------------------------- independent projects
\* the project a call acts on: the one it names, or the one of the review
\* it names; 0 when it names no row
ProjectOfCall(call) ==
  IF call.op = "submitReview"
  THEN IF call.args[1] \in DOMAIN reviews THEN reviews[call.args[1]].project_id ELSE 0
  ELSE IF call.op \in {"submitProject", "approveProject", "rejectProject"}
  THEN call.args[1]
  ELSE 0

\* C29: a call of submitProject, submitReview, approveProject or
\* rejectProject acting on project A changes neither the status nor a
\* review nor the history of any other project B, and the aggregation of
\* submitReview counts the reviews of A only: it runs exactly when no review
\* of A is unsubmitted, and the status it writes follows the decisions of
\* A's reviews, whatever the reviews of B are.
C29_ProjectsAreIndependent ==
  [][LET A == ProjectOfCall(last')
         h == Appended(history, history')
         own == ReviewsOf(reviews', A)
     IN  /\ \A B \in DOMAIN projects \ {A} :
              /\ projects'[B] = projects[B]
              /\ \A i \in ReviewsOf(reviews, B) : reviews'[i] = reviews[i]
              /\ \A k \in DOMAIN h : h[k].project_id # B
         /\ SubSeq(history', 1, Len(history)) = history
         /\ (last'.op = "submitReview" /\ last'.ok) =>
              /\ (\E k \in DOMAIN h : h[k].action[1] = "Project status changed to ")
                   <=> (\A i \in own : reviews'[i].submitted_at # NullDate)
              /\ (\A i \in own : reviews'[i].submitted_at # NullDate) =>
                   projects'[A].status =
                     (IF \E i \in own : reviews'[i].decision = "reject" THEN "rejected"
                      ELSE IF \E i \in own : reviews'[i].decision = "return" THEN "returned"
                      ELSE "approved")
    ]_vars

\* the review of one project was approved and the project became approved
\* while the review of the other project is pending or rejecting
C29_Witness ==
  /\ CalledReviewed
  /\ projects[ProjectOfReview(CalledReview)].status = "approved"
  /\ \E i \in DOMAIN reviews :
       /\ reviews[i].project_id # ProjectOfReview(CalledReview)
       /\ reviews[i].decision \in {NULL, "reject"}
  /\ \E k \in DOMAIN history :
       history[k].action = <<"Project status changed to ", "approved">>


\* ------------------------------------------------------ order of reviews
\* the reviews of project p were all pending when the run started and each
\* was submitted by one of the calls made so far, one call per review
EachSubmittedOnce(p) ==
  /\ ReviewsOf(reviews, p) # {}
  /\ callsLeft = MaxRoundCalls - Cardinality(ReviewsOf(reviews, p))
  /\ AllSubmitted(p)

\* the outcome of a set of decisions, whatever the order
OutcomeOf(decisions) ==
  IF "reject" \in decisions THEN "rejected"
  ELSE IF "return" \in decisions THEN "returned"
  ELSE "approved"

\* C30: the aggregate outcome is order-independent: when each review of a
\* project was submitted once, one call after the other, the project's
\* status is the one the decisions determine (rejected if one is reject,
\* else returned if one is return, else approved), in whichever order the
\* reviews were submitted.
C30_OutcomeIsOrderIndependent ==
  \A p \in DOMAIN projects :
    EachSubmittedOnce(p) => projects[p].status = OutcomeOf(DecisionsOf(p))

\* two reviews with different decisions, the second review submitted first
C30_Witness ==
  \E p \in DOMAIN projects :
    /\ EachSubmittedOnce(p)
    /\ \E i, j \in ReviewsOf(reviews, p) :
         /\ i < j
         /\ reviews[j].submitted_at[1] < reviews[i].submitted_at[1]
         /\ reviews[i].decision = "approve"
         /\ reviews[j].decision = "reject"
    /\ projects[p].status = "rejected"


\* ------------------------------------------------------------- the inbox
WorkflowOps == {"submitProject", "submitReview", "approveProject", "rejectProject"}
MarkOps     == {"markNotificationAsRead", "markAllNotificationsAsRead"}

\* C31: the workflow operations (and createComment) only add notifications,
\* all of them unread, and leave every existing notification as it is; no
\* step removes a notification or changes another field of one; is_read
\* changes only in markNotificationAsRead or markAllNotificationsAsRead and
\* only from false to true.
C31_NotificationsOnlyAddedAndRead ==
  [][/\ Len(notifications') >= Len(notifications)
     /\ \A k \in DOMAIN notifications :
          /\ [notifications'[k] EXCEPT !.is_read = FALSE] =
               [notifications[k] EXCEPT !.is_read = FALSE]
          /\ notifications'[k].is_read # notifications[k].is_read =>
               /\ last'.op \in MarkOps
               /\ ~notifications[k].is_read
               /\ notifications'[k].is_read
     /\ last'.op \in WorkflowOps \cup {"createComment"} =>
          \A k \in DOMAIN Appended(notifications, notifications') :
            ~Appended(notifications, notifications')[k].is_read
     /\ last'.op \in MarkOps => Len(notifications') = Len(notifications)
    ]_vars

\* a workflow operation added an unread notification behind one that was
\* read and one that was unread, and both are as they were
C31_Witness ==
  /\ last.op \in WorkflowOps /\ last.ok
  /\ Len(notifications) >= 3
  /\ notifications[1].is_read
  /\ ~notifications[2].is_read
  /\ ~notifications[3].is_read
  /\ notifications[3].type # "project_submitted"


\* C32: markNotificationAsRead(notificationId, userId) succeeds exactly when
\* the notification exists and belongs to userId, and then marks that
\* notification, and only that one, as read; otherwise it throws and leaves
\* every notification as it is.  markAllNotificationsAsRead(userId) marks
\* every notification of that user as read and leaves the notifications of
\* all other users as they are.
C32_MarkReadChecksOwner ==
  [][/\ last'.op = "markNotificationAsRead" =>
          LET id == last'.args[1]
              belongs == id \in DOMAIN notifications
                           /\ notifications[id].user_id = last'.args[2]
          IN  /\ last'.ok <=> belongs
              /\ ~last'.ok => notifications' = notifications
              /\ last'.ok =>
                   notifications' = [notifications EXCEPT ![id].is_read = TRUE]
     /\ last'.op = "markAllNotificationsAsRead" =>
          /\ last'.ok
          /\ DOMAIN notifications' = DOMAIN notifications
          /\ \A k \in DOMAIN notifications :
               IF notifications[k].user_id = last'.args[1]
               THEN notifications'[k] = [notifications[k] EXCEPT !.is_read = TRUE]
               ELSE notifications'[k] = notifications[k]
    ]_vars

\* a call for a notification of another user failed and the notification
\* is still unread
C32_Witness ==
  /\ last.op = "markNotificationAsRead" /\ ~last.ok
  /\ last.args[1] \in DOMAIN notifications
  /\ last.args[2] \in UserIds
  /\ notifications[last.args[1]].user_id # last.args[2]
  /\ ~notifications[last.args[1]].is_read

\* markAllNotificationsAsRead for a user with an unread notification, next
\* to an unread notification of another user
C32_WitnessAll ==
  /\ last.op = "markAllNotificationsAsRead"
  /\ \E j, k \in DOMAIN notifications :
       /\ notifications[j].user_id = last.args[1] /\ notifications[j].is_read
       /\ notifications[k].user_id # last.args[1] /\ ~notifications[k].is_read


\* C33: a successful createComment on a project creates exactly one
\* comment_added notification for each distinct user among the project's
\* proposer and its assigned reviewers other than the comment's author, and
\* no notification for the author or for anybody else.
C33_CommentNotifiesOthersOnce ==
  [][(last'.op = "createComment" /\ last'.ok) =>
       LET p      == last'.args[1]
           author == last'.args[2]
           new    == Appended(notifications, notifications')
       IN  /\ \A k \in DOMAIN new :
                /\ new[k].type = "comment_added"
                /\ new[k].project_id = p
           /\ \A u \in UserIds :
                Cardinality(NotificationsTo(new, u)) =
                  (IF u # author /\ (u = projects[p].proposer_id \/ Assignments(p, u) > 0)
                   THEN 1 ELSE 0)
           /\ Len(comments') = Len(comments) + 1
     ]_vars

\* the proposer commented on a project to which one reviewer is assigned
\* twice, and the reviewer holds one comment_added notification
C33_Witness ==
  /\ last.op = "createComment" /\ last.ok
  /\ last.args[2] = projects[last.args[1]].proposer_id
  /\ \E u \in UserIds :
       /\ Assignments(last.args[1], u) = 2
       /\ Cardinality({k \in NotificationsTo(notifications, u) :
                         notifications[k].type = "comment_added"}) = 1

\* a reviewer commented on a project whose proposer is assigned as a
\* reviewer too: the proposer holds one comment_added notification, the
\* author none
C33_WitnessProposerAssigned ==
  /\ last.op = "createComment" /\ last.ok
  /\ last.args[2] # projects[last.args[1]].proposer_id
  /\ Assignments(last.args[1], last.args[2]) > 0
  /\ Assignments(last.args[1], projects[last.args[1]].proposer_id) > 0
  /\ Cardinality({k \in NotificationsTo(notifications, projects[last.args[1]].proposer_id) :
                    notifications[k].type = "comment_added"}) = 1
  /\ \A k \in NotificationsTo(notifications, last.args[2]) :
       notifications[k].type # "comment_added"


\* ------------------------------------------- aggregation under interleaving
\* the step is the update of the project status by submitReview call c
SubmitReviewWritesStatus(c) ==
  /\ Running(c, "submitReview", "updateProjectStatus")
  /\ calls'[c] # calls[c]

\* no two submitReview calls of the run name the same review
EachReviewNamedOnce ==
  \A c, d \in DOMAIN calls :
    (c # d /\ calls[c].op = "submitReview" /\ calls[d].op = "submitReview")
      => calls[c].args[1] # calls[d].args[1]

\* C34: in every interleaving of concurrent submitReview calls on one
\* project, each for a review of its own, submitReview writes status
\* approved only when at that moment every review of the project is
\* submitted with decision approve.
C34_ApprovedOnlyIfAllApprove ==
  [][\A c \in DOMAIN calls :
       (/\ SubmitReviewWritesStatus(c)
        /\ calls[c].loc.newStatus = "approved"
        /\ EachReviewNamedOnce) =>
         \A i \in ReviewsOf(reviews, calls[c].loc.existingReviews[1].project_id) :
           reviews[i].decision = "approve" /\ reviews[i].submitted_at # NullDate
    ]_vars


\* ------------------------------------------ approval and the aggregation
\* the resolution rule of submitReview applied to the reviews of project p:
\* the round is complete and resolves to approved
ResolvesToApproved(p) ==
  /\ RoundComplete(PendingReviews(reviews, p))
  /\ NewStatus(TotalReviews(reviews, p), ApprovedReviews(reviews, p),
               RejectedReviews(reviews, p), ReturnedReviews(reviews, p)) = "approved"

\* C35: approveProject confirms the aggregation predicate: called by a
\* director or system administrator on an under_review project with at
\* least one review, it succeeds exactly when the resolution rule of
\* submitReview, applied to the same reviews, finds the round complete and
\* resolves it to approved.
C35_ApproveAgreesWithAggregation ==
  [][\A p \in DOMAIN projects :
       (/\ last'.op = "approveProject"
        /\ last'.args[1] = p
        /\ last'.args[2] \in UserIds
        /\ users[last'.args[2]].role \in DecisionRoles
        /\ projects[p].status = "under_review"
        /\ ReviewsOf(reviews, p) # {})
       => (last'.ok <=> ResolvesToApproved(p))
    ]_vars

\* approveProject refused a project whose complete round resolves to returned
C35_Witness ==
  /\ last.op = "approveProject" /\ ~last.ok
  /\ last.args[1] \in DOMAIN projects
  /\ projects[last.args[1]].status = "under_review"
  /\ AllSubmitted(last.args[1])
  /\ DecisionsOf(last.args[1]) = {"approve", "return"}
  /\ last.error = <<"Cannot approve project: some reviews have returned the project">>

\* approveProject accepted a project whose complete round resolves to approved
C35_WitnessApproved ==
  /\ last.op = "approveProject" /\ last.ok
  /\ DecisionsOf(last.args[1]) = {"approve"}
  /\ AllSubmitted(last.args[1])


\* C36: in every state reached from projects created by createProject
\* through the workflow operations, each review has a decision exactly when
\* it has a submitted_at.
C36_DecisionIffSubmittedAt ==
  \A i \in DOMAIN reviews :
    reviews[i].decision # NULL <=> reviews[i].submitted_at # NullDate

\* a project created with two reviewers, one review submitted and the other
\* still pending
C36_Witness ==
  \E i, j \in DOMAIN reviews :
    /\ reviews[i].project_id = reviews[j].project_id
    /\ reviews[i].decision \in ReviewDecision /\ reviews[i].submitted_at # NullDate
    /\ reviews[j].decision = NULL /\ reviews[j].submitted_at = NullDate
    /\ \E k \in DOMAIN history : history[k].action = <<"project_created">>


\* ------------------------------------------------------ order of checks
\* C37: approveProject reports the first violated check in the order:
\* unknown user, role, unknown project, status, no reviews or an unsubmitted
\* review, a reject decision, a return decision; it succeeds when none is
\* violated.
C37_ApproveReportsFirstViolation ==
  [][last'.op = "approveProject" =>
       LET p  == last'.args[1]
           u  == last'.args[2]
           rs == ReviewsOf(reviews, p)
       IN
       IF u \notin UserIds THEN last'.error = <<"User not found">>
       ELSE IF users[u].role \notin DecisionRoles THEN IsForbidden(last'.error)
       ELSE IF p \notin DOMAIN projects THEN last'.error = <<"Project not found">>
       ELSE IF projects[p].status # "under_review" THEN
         last'.error = InvalidStateMessage("approveProject", projects[p].status)
       ELSE IF rs = {} \/ \E i \in rs : reviews[i].submitted_at = NullDate THEN
         IsReviewsIncomplete(last'.error)
       ELSE IF \E i \in rs : reviews[i].decision = "reject" THEN
         last'.error = <<"Cannot approve project: some reviews have rejected the project">>
       ELSE IF \E i \in rs : reviews[i].decision = "return" THEN
         last'.error = <<"Cannot approve project: some reviews have returned the project">>
       ELSE last'.ok
    ]_vars

\* a caller who is no director on a project that does not exist: Forbidden
C37_Witness ==
  /\ last.op = "approveProject" /\ ~last.ok
  /\ last.args[1] \notin DOMAIN projects
  /\ last.args[2] \in UserIds
  /\ users[last.args[2]].role \notin DecisionRoles
  /\ IsForbidden(last.error)

\* an unsubmitted and a rejecting review: ReviewsIncomplete
C37_WitnessIncomplete ==
  /\ last.op = "approveProject" /\ ~last.ok
  /\ last.args[1] \in DOMAIN projects
  /\ \E i, j \in ReviewsOf(reviews, last.args[1]) :
       reviews[i].submitted_at = NullDate /\ reviews[j].decision = "reject"
  /\ IsReviewsIncomplete(last.error)

\* a rejecting and a returning review: the reject is reported
C37_WitnessRejectFirst ==
  /\ last.op = "approveProject" /\ ~last.ok
  /\ last.args[1] \in DOMAIN projects
  /\ DecisionsOf(last.args[1]) = {"reject", "return"}
  /\ last.error = <<"Cannot approve project: some reviews have rejected the project">>


\* ------------------------------------------------------ inactive deciders
\* C38: the authorization of approveProject and rejectProject depends on the
\* caller's role only: called by a director or system administrator whose
\* is_active is false on an under_review project, rejectProject succeeds and
\* approveProject succeeds whenever the reviews allow it; whereas the
\* project_approved notifications of submitReview never go to an inactive
\* director or administrator.
C38_InactiveDecidersStillDecide ==
  [][/\ \A p \in DOMAIN projects :
          (/\ last'.op \in {"approveProject", "rejectProject"}
           /\ last'.args[1] = p
           /\ last'.args[2] \in UserIds
           /\ users[last'.args[2]].role \in DecisionRoles
           /\ ~users[last'.args[2]].is_active
           /\ projects[p].status = "under_review")
          => IF last'.op = "rejectProject"
             THEN last'.ok /\ projects'[p].status = "rejected"
             ELSE /\ last'.ok <=> (ReviewsOf(reviews, p) # {} /\ ResolvesToApproved(p))
                  /\ last'.ok => projects'[p].status = "approved"
     /\ last'.op = "submitReview" =>
          \A k \in DOMAIN Appended(notifications, notifications') :
            Appended(notifications, notifications')[k].type = "project_approved" =>
              \/ users[Appended(notifications, notifications')[k].user_id].is_active
              \/ users[Appended(notifications, notifications')[k].user_id].role
                   \notin DecisionRoles
    ]_vars

\* an inactive director approved a project
C38_Witness ==
  /\ last.op = "approveProject" /\ last.ok
  /\ ~users[last.args[2]].is_active
  /\ projects[last.args[1]].status = "approved"

\* an inactive director rejected a project
C38_WitnessReject ==
  /\ last.op = "rejectProject" /\ last.ok
  /\ ~users[last.args[2]].is_active
  /\ projects[last.args[1]].status = "rejected"

====
